---------------------------- MODULE Spec2Model ----------------------------
(***************************************************************************)
(* Universal Performance Manager: the settings manager                     *)
(* (UUPMSettingsManager, newer revision, the one the public header         *)
(* declares) as a state machine.                                           *)
(*                                                                         *)
(* Representation of C++ values:                                           *)
(*   float   a fixed-point integer, thousandths of the unit (1.0f = 1000)  *)
(*   int32   an integer                                                    *)
(*   bool    a BOOLEAN                                                     *)
(*   enum    the integer value of the enumerator (uint8)                   *)
(*   time    (DeltaTime, the history accumulator) an integer number of     *)
(*           1/3600 s, so that 1/240, 1/120, 1/60 and 1/30 s are exact     *)
(***************************************************************************)
EXTENDS Integers, Sequences, FiniteSets, TLC

\* ------------------------------------------------------------------------
\* Units
\* ------------------------------------------------------------------------

\* thousandths: the fixed-point scale of every float
FloatScale == 10 * 100

\* time units per second
TimeUnitsPerSecond == 60 * 60

\* a float infinity (1.0f / 0.0f), larger than every finite value of the model
FloatInf == 2 * FloatScale * FloatScale * FloatScale

\* C++ division of two floats in fixed point, truncated toward zero; x / 0 is
\* +-infinity (IEEE), never a trap
FloatDiv(a, b) ==
    IF b = 0 THEN (IF a < 0 THEN 0 - FloatInf ELSE FloatInf)
    ELSE IF (a >= 0) = (b > 0)
         THEN (IF a >= 0 THEN a ELSE 0 - a) \div (IF b > 0 THEN b ELSE 0 - b)
         ELSE 0 - ((IF a >= 0 THEN a ELSE 0 - a) \div (IF b > 0 THEN b ELSE 0 - b))

\* ------------------------------------------------------------------------
\* Bounds of the model
\* ------------------------------------------------------------------------

\* calls of UpdatePerformanceMetrics with a positive DeltaTime between two resets
MaxTicks == 122

\* calls of UpdatePerformanceMetrics in the runs that follow the settings
MaxFrames == 1

\* calls of ResetPerformanceStats in one run
MaxResets == 1

\* how often the frame duration changes from one tick to the next between two
\* resets
MaxDtChanges == 1

\* ticks of the steady 60 FPS run
MaxSteadyTicks == 181

\* frame durations offered to UpdatePerformanceMetrics, in 1/3600 s:
\* 1/240 s, 1/60 s and 1/30 s
DeltaTimes == {15, 60, 120}

\* frame durations of a stalled or invalid tick
StalledDeltaTimes == {0 - 60, 0}

\* the frame duration of the steady run: 1/60 s
SteadyDeltaTime == TimeUnitsPerSecond \div 60

\* ticks of the slow run
MaxSlowTicks == 30

\* the frame duration of the slow run: 1/10 s
SlowDeltaTime == TimeUnitsPerSecond \div 10

\* what RHIGetResourceMemoryUsage and FPlatformMemory::GetStats report, in
\* blocks of 1024 * 1024 bytes
UsedVRAMReadings == {0, 512}
UsedPhysicalReadings == {2048}

\* the same readings while the frame duration varies
FrameVRAMReadings == {512}

\* what the memory in front of the history buffer may hold when RemoveAt reads it
GarbageSamples == {0, 7777777}

VARIABLES
    FPSHistory,                 \* TArray<float> FPSHistory
    FPSHistoryTimeAccumulator,  \* float FPSHistoryTimeAccumulator
    PerformanceMetrics,         \* FUPMPerformanceMetrics PerformanceMetrics
    CurrentSettings,            \* FUPMCompleteSettings CurrentSettings
    SinkState,                  \* what every apply sink target was last handed
    sinkCalls,                  \* the sink calls the last operation issued, in order
    applyTrace,                 \* the category apply functions the last operation ran
    available,                  \* the sink targets that can be resolved
    file,                       \* <saved-dir>/UPM/Settings.json
    dirExists,                  \* <saved-dir>/UPM exists
    savedFrom,                  \* the settings the file was written from, if any
    crashed,                    \* the process was stopped by a failed check
    lastOp,                     \* the operation that produced this state
    Instance,                   \* static UUPMSettingsManager* Instance
    constructions,              \* managers constructed in this process
    overlay,                    \* the UUPMPerformanceOverlayWidget of the game
    ticks, resets, dtChanges, lastDt, ops   \* bookkeeping of the bounds

telemetryVars == <<FPSHistory, FPSHistoryTimeAccumulator, PerformanceMetrics>>
sinkVars == <<SinkState, sinkCalls, applyTrace>>
fileVars == <<file, dirExists, savedFrom>>
tickVars == <<ticks, resets, dtChanges, lastDt>>
singletonVars == <<Instance, constructions>>
widgetVars == <<overlay>>
vars == <<FPSHistory, FPSHistoryTimeAccumulator, PerformanceMetrics,
          CurrentSettings, SinkState, sinkCalls, applyTrace, available,
          file, dirExists, savedFrom, crashed, lastOp,
          Instance, constructions, overlay, ticks, resets, dtChanges, lastDt, ops>>

\* ------------------------------------------------------------------------
\* Telemetry: FUPMPerformanceMetrics, UpdatePerformanceMetrics,
\* ResetPerformanceStats
\* ------------------------------------------------------------------------

\* the history size the trim cuts down to
HistoryCapacity == 120

\* the trim only runs above this history size
TrimThreshold == 60

\* the 2.0f seconds the accumulator is compared with and reset to
HistoryWindow == 2 * TimeUnitsPerSecond

\* ResetPerformanceStats' FPS_Min
ResetFPSMin == 999 * FloatScale

\* FUPMPerformanceMetrics::FUPMPerformanceMetrics()
DefaultPerformanceMetrics ==
    [ FPS_Current |-> 0, FPS_Average |-> 0, FPS_Min |-> 0,
      FPS_Max |-> 999 * FloatScale,
      CPUFrameTime |-> 0, GPUFrameTime |-> 0, VRAMUsageMB |-> 0, RAMUsageMB |-> 0,
      DrawCalls |-> 0, PrimitiveCount |-> 0,
      GameThreadLoad |-> 0, RenderThreadLoad |-> 0, RHIThreadLoad |-> 0,
      NetworkPing |-> 0, PacketLoss |-> 0 ]

\* FMath::Clamp
Clamp(X, Min, Max) == IF X < Min THEN Min ELSE IF X < Max THEN X ELSE Max

\* FMath::Max, FMath::Min
FMax(A, B) == IF A >= B THEN A ELSE B
FMin(A, B) == IF A <= B THEN A ELSE B

\* the loop over FPSHistory: Sum, Min and Max of the samples lo..hi, folded by
\* halves (integer sums, minima and maxima do not depend on the grouping)
RECURSIVE SumOver(_, _, _)
SumOver(h, lo, hi) ==
    IF lo > hi THEN 0
    ELSE IF lo = hi THEN h[lo]
    ELSE SumOver(h, lo, (lo + hi) \div 2) + SumOver(h, ((lo + hi) \div 2) + 1, hi)

RECURSIVE MinOver(_, _, _)
MinOver(h, lo, hi) ==
    IF lo = hi THEN h[lo]
    ELSE FMin(MinOver(h, lo, (lo + hi) \div 2), MinOver(h, ((lo + hi) \div 2) + 1, hi))

RECURSIVE MaxOver(_, _, _)
MaxOver(h, lo, hi) ==
    IF lo = hi THEN h[lo]
    ELSE FMax(MaxOver(h, lo, (lo + hi) \div 2), MaxOver(h, ((lo + hi) \div 2) + 1, hi))

\* the guard of UpdatePerformanceMetrics: the tick is skipped
SkipTick_NoZero(DeltaTime) == DeltaTime < 0
SkipTick(DeltaTime) == DeltaTime <= 0

\* 1.0f / DeltaTime
CurrentFPS(DeltaTime) == FloatDiv(FloatScale * TimeUnitsPerSecond, DeltaTime)

\* FPSHistory.Num() - 120, the count handed to RemoveAt
TrimCount_Threshold(Num) == Num - TrimThreshold
TrimCount(Num) == Num - HistoryCapacity

\* the trim is entered
TrimDue(acc, Num) == acc > HistoryWindow /\ Num > TrimThreshold

\* TArray::RemoveAt(0, Count) with 0 <= Count <= Num
RemoveAtFront(h, Count) == SubSeq(h, Count + 1, Len(h))

\* TArray::RemoveAt(0, Count) with Count < 0, in a build without the range
\* check: ArrayNum - Count elements are moved from Count slots in front of the
\* buffer to its start, so the array grows by -Count slots of foreign memory
GrowFromFront(h, Count, g) == [i \in 1..(0 - Count) |-> g] \o h

\* statistics kept as running extremes of the samples seen, with the mean of
\* the history
WithStatistics_Running(m, h) ==
    IF Len(h) > 0
    THEN [m EXCEPT !.FPS_Average = FloatDiv(SumOver(h, 1, Len(h)), Len(h)),
                   !.FPS_Min = FMin(m.FPS_Min, h[Len(h)]),
                   !.FPS_Max = FMax(m.FPS_Max, h[Len(h)])]
    ELSE m

\* the FPS statistics block
WithStatistics(m, h) ==
    IF Len(h) > 0
    THEN [m EXCEPT !.FPS_Average = FloatDiv(SumOver(h, 1, Len(h)), Len(h)),
                   !.FPS_Min = MinOver(h, 1, Len(h)),
                   !.FPS_Max = MaxOver(h, 1, Len(h))]
    ELSE m

\* DeltaTime in milliseconds, as a float
Milliseconds(DeltaTime) == (DeltaTime * FloatScale * FloatScale) \div TimeUnitsPerSecond

\* FMath::Clamp(DeltaTime / 0.0166f, 0.0f, 1.0f)
ThreadLoad(DeltaTime) ==
    Clamp((DeltaTime * 100 * FloatScale) \div ((166 * TimeUnitsPerSecond) \div 100),
          0, FloatScale)

\* static_cast<float>(bytes) / (1024.0f * 1024.0f), of a reading in blocks of
\* 1024 * 1024 bytes
MegaBytes(blocks) == blocks * FloatScale

\* frame times, memory usage and thread loads
WithFrameStats(m, DeltaTime, UsedPhysical, rhi, UsedVRAM) ==
    [m EXCEPT !.CPUFrameTime = Milliseconds(DeltaTime),
              !.GPUFrameTime = (Milliseconds(DeltaTime) * 8) \div 10,
              !.RAMUsageMB = MegaBytes(UsedPhysical),
              !.VRAMUsageMB = IF rhi /\ UsedVRAM > 0 THEN MegaBytes(UsedVRAM) ELSE m.VRAMUsageMB,
              !.GameThreadLoad = ThreadLoad(DeltaTime),
              !.RenderThreadLoad = (ThreadLoad(DeltaTime) * 9) \div 10,
              !.RHIThreadLoad = (ThreadLoad(DeltaTime) * 7) \div 10]

\* the part of UpdatePerformanceMetrics after the history is settled
FinishUpdate(h, acc, DeltaTime, UsedPhysical, rhi, UsedVRAM) ==
    /\ FPSHistory' = h
    /\ FPSHistoryTimeAccumulator' = acc
    /\ PerformanceMetrics' =
         WithFrameStats(
           WithStatistics([PerformanceMetrics EXCEPT !.FPS_Current = CurrentFPS(DeltaTime)], h),
           DeltaTime, UsedPhysical, rhi, UsedVRAM)
    /\ crashed' = crashed

\* UUPMSettingsManager::UpdatePerformanceMetrics(DeltaTime), the whole call
UpdateBody(DeltaTime, UsedPhysical, rhi, UsedVRAM) ==
    IF SkipTick(DeltaTime)
    THEN UNCHANGED <<telemetryVars, crashed>>
    ELSE LET h1 == Append(FPSHistory, CurrentFPS(DeltaTime))
             acc1 == FPSHistoryTimeAccumulator + DeltaTime
         IN  IF acc1 > HistoryWindow
             THEN IF TrimDue(acc1, Len(h1))
                  THEN IF TrimCount(Len(h1)) >= 0
                       THEN FinishUpdate(RemoveAtFront(h1, TrimCount(Len(h1))),
                                         HistoryWindow, DeltaTime, UsedPhysical, rhi, UsedVRAM)
                       ELSE \/ /\ crashed' = TRUE
                               /\ FPSHistory' = h1
                               /\ FPSHistoryTimeAccumulator' = acc1
                               /\ PerformanceMetrics' =
                                    [PerformanceMetrics EXCEPT !.FPS_Current = CurrentFPS(DeltaTime)]
                            \/ \E g \in GarbageSamples :
                                 FinishUpdate(GrowFromFront(h1, TrimCount(Len(h1)), g),
                                              HistoryWindow, DeltaTime, UsedPhysical, rhi, UsedVRAM)
                  ELSE FinishUpdate(h1, HistoryWindow, DeltaTime, UsedPhysical, rhi, UsedVRAM)
             ELSE FinishUpdate(h1, acc1, DeltaTime, UsedPhysical, rhi, UsedVRAM)

\* the null pointer, the value of Instance while no manager exists
nullptr == 0

\* one call of UpdatePerformanceMetrics and the bookkeeping of the bounds
Tick(DeltaTime, UsedPhysical, rhi, UsedVRAM) ==
    /\ Instance # nullptr
    /\ UpdateBody(DeltaTime, UsedPhysical, rhi, UsedVRAM)
    /\ lastOp' = [name |-> "UpdatePerformanceMetrics", DeltaTime |-> DeltaTime]
    /\ ticks' = IF DeltaTime > 0 THEN ticks + 1 ELSE ticks
    /\ dtChanges' = IF DeltaTime > 0 /\ lastDt # 0 /\ DeltaTime # lastDt
                    THEN dtChanges + 1 ELSE dtChanges
    /\ lastDt' = IF DeltaTime > 0 THEN DeltaTime ELSE lastDt
    /\ resets' = resets
    /\ UNCHANGED <<CurrentSettings, sinkVars, available, singletonVars, widgetVars, fileVars, ops>>

\* a caller ticks the manager with the duration of a rendered frame
UpdatePerformanceMetrics ==
    /\ ~crashed
    /\ ticks < MaxTicks
    /\ \E DeltaTime \in DeltaTimes, UsedPhysical \in UsedPhysicalReadings,
          rhi \in {TRUE}, UsedVRAM \in FrameVRAMReadings :
         /\ (lastDt # 0 /\ DeltaTime # lastDt) => dtChanges < MaxDtChanges
         /\ Tick(DeltaTime, UsedPhysical, rhi, UsedVRAM)

\* a caller ticks the manager at a steady 60 frames per second
SteadyTick ==
    /\ ~crashed
    /\ ticks < MaxSteadyTicks
    /\ \E UsedPhysical \in UsedPhysicalReadings, rhi \in BOOLEAN,
          UsedVRAM \in UsedVRAMReadings :
         Tick(SteadyDeltaTime, UsedPhysical, rhi, UsedVRAM)

\* a caller ticks the manager at a slow 10 frames per second
SlowTick ==
    /\ ~crashed
    /\ ticks < MaxSlowTicks
    /\ \E UsedPhysical \in UsedPhysicalReadings, rhi \in BOOLEAN,
          UsedVRAM \in UsedVRAMReadings :
         Tick(SlowDeltaTime, UsedPhysical, rhi, UsedVRAM)

\* a caller ticks the manager with a zero or negative duration
StalledTick ==
    /\ ~crashed
    /\ \E DeltaTime \in StalledDeltaTimes, UsedPhysical \in UsedPhysicalReadings,
          rhi \in BOOLEAN, UsedVRAM \in UsedVRAMReadings :
         Tick(DeltaTime, UsedPhysical, rhi, UsedVRAM)

\* ResetPerformanceStats' writes to the snapshot
ResetMetrics_KeepMin(m) == [m EXCEPT !.FPS_Max = 0, !.FPS_Average = 0]
ResetMetrics(m) == [m EXCEPT !.FPS_Min = ResetFPSMin, !.FPS_Max = 0, !.FPS_Average = 0]

\* UUPMSettingsManager::ResetPerformanceStats()
ResetPerformanceStats ==
    /\ Instance # nullptr
    /\ ~crashed
    /\ resets < MaxResets
    /\ FPSHistory' = <<>>
    /\ FPSHistoryTimeAccumulator' = 0
    /\ PerformanceMetrics' = ResetMetrics(PerformanceMetrics)
    /\ lastOp' = [name |-> "ResetPerformanceStats"]
    /\ resets' = resets + 1
    /\ ticks' = 0 /\ dtChanges' = 0 /\ lastDt' = 0
    /\ UNCHANGED <<crashed, CurrentSettings, sinkVars, available, singletonVars, widgetVars, fileVars, ops>>

\* ------------------------------------------------------------------------
\* The performance overlay: UUPMPerformanceOverlayWidget
\* ------------------------------------------------------------------------

\* calls of NativeTick that reach UpdatePerformanceMetrics with a positive
\* duration
MaxOverlayTicks == 7

\* the durations the engine hands to NativeTick: none, 1/60 s and 1/30 s
OverlayDeltaTimes == {0, 60, 120}

\* UUPMPerformanceOverlayWidget::UUPMPerformanceOverlayWidget: a widget that
\* has not been constructed on screen yet holds no manager
DefaultOverlay ==
    [ SettingsManager |-> nullptr, bIsVisible |-> TRUE,
      UpdateInterval |-> TimeUnitsPerSecond \div 10, UpdateTimer |-> 0,
      Visibility |-> "Visible" ]

\* a timer that keeps the time by which it passed the interval
TimerAfterFire_KeepsExcess(Timer, Interval) == Timer - Interval
\* UpdateTimer = 0.0f
TimerAfterFire(Timer, Interval) == 0

\* UUPMSettingsManager::UUPMSettingsManager(); no overlay is on screen
InitTelemetry ==
    /\ overlay = DefaultOverlay
    /\ FPSHistory = <<>>
    /\ FPSHistoryTimeAccumulator = 0
    /\ PerformanceMetrics = DefaultPerformanceMetrics
    /\ crashed = FALSE
    /\ lastOp = [name |-> "Construct"]
    /\ ticks = 0 /\ resets = 0 /\ dtChanges = 0 /\ lastDt = 0 /\ ops = 0

\* ------------------------------------------------------------------------
\* Bounds and inputs of the settings operations
\* ------------------------------------------------------------------------

\* calls of per-field setters in one run
MaxSetterCalls == 1

\* bulk setter, apply, save, load and file operations in one run
MaxOps == 4

\* setter, apply and save operations in the run of the frame loop
MaxFrameOps == 2

\* arguments offered to the int32 setters: below, inside and above every range
IntInputs == {0 - 1, 0, 2, 4, 5, 7}

\* arguments offered to the float setters, in thousandths: -10, 0, 0.05, 0.3,
\* 0.85, 1.5, 3, 90, 500, 5000 and 20000
FloatInputs == {0 - 10000, 0, 50, 300, 850, 1500, 3000, 90000, 500000, 5000000, 20000000}

\* arguments offered to SetResolution and SetPreferredRegion
Resolutions == {[X |-> 1280, Y |-> 720], [X |-> 3840, Y |-> 2160]}
Regions == {"Auto", "EU-West"}

\* ------------------------------------------------------------------------
\* Settings: FUPMCompleteSettings and its defaults
\* ------------------------------------------------------------------------

\* the enumerators of the three enum fields, in declaration order; the value
\* of an enumerator is its position, counted from 0
EUPMUpscalingMode == <<"None", "DLSS", "FSR", "XeSS", "TSR">>
EUPMColorblindMode == <<"None", "Deuteranopia", "Protanopia", "Tritanopia">>
EWindowMode == <<"Fullscreen", "WindowedFullscreen", "Windowed">>

\* static_cast<int32>(enumerator)
EnumValue(enum, name) == (CHOOSE i \in 1..Len(enum) : enum[i] = name) - 1

\* static_cast<enum>(int32) into an enum two bits wide
ToEnumByte_TwoBits(n) == n % 4
\* static_cast<enum>(int32): the enums are one byte wide
ToEnumByte(n) == n % (2 ^ 8)

\* FUPMGraphicsSettings::FUPMGraphicsSettings()
DefaultGraphics ==
    [ AntiAliasingQuality |-> 3, ShadowQuality |-> 3, ViewDistanceQuality |-> 3,
      PostProcessQuality |-> 3, TextureQuality |-> 3, EffectsQuality |-> 3,
      FoliageQuality |-> 3, ShadingQuality |-> 3 ]

\* FUPMRenderingSettings::FUPMRenderingSettings()
DefaultRendering ==
    [ bEnableLumen |-> TRUE, bEnableRayTracing |-> FALSE, bEnableSSAO |-> TRUE,
      bEnableSSR |-> TRUE, bEnableMotionBlur |-> TRUE, bEnableBloom |-> TRUE,
      bEnableDepthOfField |-> TRUE, bEnableLensFlares |-> TRUE,
      bEnableChromaticAberration |-> FALSE, bEnableFilmGrain |-> FALSE,
      bEnableVignette |-> TRUE, bEnableVolumetricFog |-> TRUE,
      AnisotropicFiltering |-> 4, bEnableTAA |-> TRUE,
      UpscalingMode |-> EnumValue(EUPMUpscalingMode, "TSR"),
      GlobalIlluminationQuality |-> 3, ReflectionQuality |-> 3,
      bEnableSSGI |-> FALSE, bEnableContactShadows |-> TRUE ]

\* FUPMPerformanceSettings::FUPMPerformanceSettings()
DefaultPerformance ==
    [ bEnableVSync |-> TRUE, FrameRateLimit |-> 0, bEnableDynamicResolution |-> FALSE,
      MinFrameRateForDynamicRes |-> 30 * FloatScale, bEnableTripleBuffering |-> FALSE,
      bEnableAsyncCompute |-> TRUE, LODDistanceMultiplier |-> FloatScale,
      ProcessPriority |-> 0 ]

\* FUPMDisplaySettings::FUPMDisplaySettings()
DefaultDisplay ==
    [ Resolution |-> [X |-> 1920, Y |-> 1080],
      WindowMode |-> EnumValue(EWindowMode, "Fullscreen"),
      Brightness |-> FloatScale, Contrast |-> FloatScale, bEnableHDR |-> FALSE,
      HDRMaxNits |-> 1000 * FloatScale, MonitorIndex |-> 0, bBorderlessWindow |-> FALSE,
      ScreenPercentage |-> 100 * FloatScale, MenuFieldOfView |-> 90 * FloatScale,
      AspectRatioOverride |-> 0, SafeZoneScale |-> FloatScale ]

\* FUPMAudioSettings::FUPMAudioSettings()
DefaultAudio ==
    [ MasterVolume |-> 1000, SFXVolume |-> 1000, MusicVolume |-> 800,
      VoiceDialogVolume |-> 1000, AmbientVolume |-> 700, UISoundVolume |-> 900,
      VoiceChatVolume |-> 1000, AudioQuality |-> 2, SurroundSoundMode |-> 0,
      bEnableSpatialAudio |-> FALSE, DynamicRange |-> 500, SubtitleTextSize |-> 1000,
      SubtitleBackgroundOpacity |-> 500 ]

\* FUPMGameplaySettings::FUPMGameplaySettings()
DefaultGameplay ==
    [ FOV |-> 90 * FloatScale, MouseSensitivity |-> 1000, bInvertMouseY |-> FALSE,
      ControllerSensitivity |-> 1000, ControllerDeadZone |-> 150,
      AimAssistStrength |-> 500, CameraShakeIntensity |-> 1000,
      HeadBobIntensity |-> 500, bEnableVibration |-> TRUE, bCrouchToggle |-> FALSE,
      bSprintToggle |-> FALSE, bEnableAutoRun |-> FALSE, CameraSmoothing |-> 500 ]

\* FUPMAccessibilitySettings::FUPMAccessibilitySettings()
DefaultAccessibility ==
    [ ColorblindMode |-> EnumValue(EUPMColorblindMode, "None"),
      UIScale |-> 1000, TextSize |-> 1000, bHighContrastMode |-> FALSE,
      bEnableScreenReader |-> FALSE, bReducedMotion |-> FALSE,
      bPhotosensitivityMode |-> FALSE ]

\* FUPMNetworkSettings::FUPMNetworkSettings()
DefaultNetwork ==
    [ MaxPingThreshold |-> 150, NetworkSmoothing |-> 500, BandwidthLimitKBps |-> 0,
      PreferredRegion |-> "Auto", bEnableCrossplay |-> TRUE ]

\* FUPMDebugSettings::FUPMDebugSettings()
DefaultDebug ==
    [ bShowPerformanceOverlay |-> FALSE, bShowNetworkStats |-> FALSE,
      bDeveloperMode |-> FALSE, bEnableCrashReporting |-> TRUE,
      bBenchmarkMode |-> FALSE ]

\* FUPMCompleteSettings, default-constructed
DefaultSettings ==
    [ Graphics |-> DefaultGraphics, Rendering |-> DefaultRendering,
      Performance |-> DefaultPerformance, Display |-> DefaultDisplay,
      Audio |-> DefaultAudio, Gameplay |-> DefaultGameplay,
      Accessibility |-> DefaultAccessibility, Network |-> DefaultNetwork,
      Debug |-> DefaultDebug ]

\* the nine categories, in the order of FUPMCompleteSettings
Categories ==
    <<"Graphics", "Rendering", "Performance", "Display", "Audio", "Gameplay",
      "Accessibility", "Network", "Debug">>

\* ------------------------------------------------------------------------
\* Settings: the per-field setters, by category.  Each operator is the store
\* of the named setter; the apply call that follows it is in the action.
\* ------------------------------------------------------------------------

\* FMath::Clamp without its upper bound
ClampFloat_NoUpper(X, Min, Max) == IF X < Min THEN Min ELSE X
\* FMath::Clamp of a float argument
ClampFloat(X, Min, Max) == Clamp(X, Min, Max)

\* FMath::Clamp of an int32 argument
ClampInt(X, Min, Max) == Clamp(X, Min, Max)

GraphicsSetters ==
    {"SetAntiAliasingQuality", "SetShadowQuality", "SetViewDistanceQuality",
     "SetPostProcessQuality", "SetTextureQuality"}

GraphicsSetter(g, name, v) ==
    CASE name = "SetAntiAliasingQuality" -> [g EXCEPT !.AntiAliasingQuality = ClampInt(v, 0, 4)]
      [] name = "SetShadowQuality" -> [g EXCEPT !.ShadowQuality = ClampInt(v, 0, 4)]
      [] name = "SetViewDistanceQuality" -> [g EXCEPT !.ViewDistanceQuality = ClampInt(v, 0, 4)]
      [] name = "SetPostProcessQuality" -> [g EXCEPT !.PostProcessQuality = ClampInt(v, 0, 4)]
      [] name = "SetTextureQuality" -> [g EXCEPT !.TextureQuality = ClampInt(v, 0, 4)]

\* UPM_SET_RENDERING_BOOL(VarName, MemberName): Set<VarName>Enabled
RenderingBoolSetters ==
    {"SetLumenEnabled", "SetRayTracingEnabled", "SetSSAOEnabled", "SetSSREnabled",
     "SetDepthOfFieldEnabled", "SetLensFlaresEnabled", "SetChromaticAberrationEnabled",
     "SetFilmGrainEnabled", "SetVignetteEnabled", "SetVolumetricFogEnabled",
     "SetTAAEnabled", "SetSSGIEnabled", "SetContactShadowsEnabled"}

RenderingSetters ==
    RenderingBoolSetters \cup
    {"SetAnisotropicFiltering", "SetUpscalingMode", "SetGlobalIlluminationQuality",
     "SetReflectionQuality"}

RenderingSetter(r, name, v) ==
    CASE name = "SetLumenEnabled" -> [r EXCEPT !.bEnableLumen = v]
      [] name = "SetRayTracingEnabled" -> [r EXCEPT !.bEnableRayTracing = v]
      [] name = "SetSSAOEnabled" -> [r EXCEPT !.bEnableSSAO = v]
      [] name = "SetSSREnabled" -> [r EXCEPT !.bEnableSSR = v]
      [] name = "SetDepthOfFieldEnabled" -> [r EXCEPT !.bEnableDepthOfField = v]
      [] name = "SetLensFlaresEnabled" -> [r EXCEPT !.bEnableLensFlares = v]
      [] name = "SetChromaticAberrationEnabled" -> [r EXCEPT !.bEnableChromaticAberration = v]
      [] name = "SetFilmGrainEnabled" -> [r EXCEPT !.bEnableFilmGrain = v]
      [] name = "SetVignetteEnabled" -> [r EXCEPT !.bEnableVignette = v]
      [] name = "SetVolumetricFogEnabled" -> [r EXCEPT !.bEnableVolumetricFog = v]
      [] name = "SetTAAEnabled" -> [r EXCEPT !.bEnableTAA = v]
      [] name = "SetSSGIEnabled" -> [r EXCEPT !.bEnableSSGI = v]
      [] name = "SetContactShadowsEnabled" -> [r EXCEPT !.bEnableContactShadows = v]
      [] name = "SetAnisotropicFiltering" -> [r EXCEPT !.AnisotropicFiltering = ClampInt(v, 0, 4)]
      [] name = "SetUpscalingMode" -> [r EXCEPT !.UpscalingMode = v]
      [] name = "SetGlobalIlluminationQuality" ->
             [r EXCEPT !.GlobalIlluminationQuality = ClampInt(v, 0, 4)]
      [] name = "SetReflectionQuality" -> [r EXCEPT !.ReflectionQuality = ClampInt(v, 0, 4)]

PerformanceSetters ==
    {"SetVSyncEnabled", "SetFrameRateLimit", "SetDynamicResolutionEnabled",
     "SetMinFrameRateForDynamicRes", "SetTripleBufferingEnabled",
     "SetAsyncComputeEnabled", "SetLODDistanceMultiplier", "SetProcessPriority"}

PerformanceSetter(p, name, v) ==
    CASE name = "SetVSyncEnabled" -> [p EXCEPT !.bEnableVSync = v]
      [] name = "SetFrameRateLimit" -> [p EXCEPT !.FrameRateLimit = FMax(0, v)]
      [] name = "SetDynamicResolutionEnabled" -> [p EXCEPT !.bEnableDynamicResolution = v]
      [] name = "SetMinFrameRateForDynamicRes" ->
             [p EXCEPT !.MinFrameRateForDynamicRes = ClampFloat(v, 15000, 60000)]
      [] name = "SetTripleBufferingEnabled" -> [p EXCEPT !.bEnableTripleBuffering = v]
      [] name = "SetAsyncComputeEnabled" -> [p EXCEPT !.bEnableAsyncCompute = v]
      [] name = "SetLODDistanceMultiplier" ->
             [p EXCEPT !.LODDistanceMultiplier = ClampFloat(v, 250, 4000)]
      [] name = "SetProcessPriority" -> [p EXCEPT !.ProcessPriority = ClampInt(v, 0, 2)]

DisplaySetters ==
    {"SetResolution", "SetWindowMode", "SetBrightness", "SetContrast", "SetHDREnabled",
     "SetHDRMaxNits", "SetMonitorIndex", "SetBorderlessWindow", "SetScreenPercentage",
     "SetMenuFieldOfView", "SetAspectRatioOverride", "SetSafeZoneScale"}

DisplaySetter(d, name, v) ==
    CASE name = "SetResolution" -> [d EXCEPT !.Resolution = v]
      [] name = "SetWindowMode" -> [d EXCEPT !.WindowMode = v]
      [] name = "SetBrightness" -> [d EXCEPT !.Brightness = ClampFloat(v, 0, 2000)]
      [] name = "SetContrast" -> [d EXCEPT !.Contrast = ClampFloat(v, 0, 2000)]
      [] name = "SetHDREnabled" -> [d EXCEPT !.bEnableHDR = v]
      [] name = "SetHDRMaxNits" -> [d EXCEPT !.HDRMaxNits = ClampFloat(v, 1000000, 10000000)]
      [] name = "SetMonitorIndex" -> [d EXCEPT !.MonitorIndex = FMax(0, v)]
      [] name = "SetBorderlessWindow" -> [d EXCEPT !.bBorderlessWindow = v]
      [] name = "SetScreenPercentage" ->
             [d EXCEPT !.ScreenPercentage = ClampFloat(v, 50000, 200000)]
      [] name = "SetMenuFieldOfView" ->
             [d EXCEPT !.MenuFieldOfView = ClampFloat(v, 60000, 120000)]
      [] name = "SetAspectRatioOverride" -> [d EXCEPT !.AspectRatioOverride = v]
      [] name = "SetSafeZoneScale" -> [d EXCEPT !.SafeZoneScale = ClampFloat(v, 800, 1000)]

\* UPM_SET_AUDIO_VOLUME(VarName): Set<VarName>Volume
AudioVolumeSetters ==
    {"SetMasterVolume", "SetSFXVolume", "SetMusicVolume", "SetVoiceDialogVolume",
     "SetAmbientVolume", "SetUISoundVolume", "SetVoiceChatVolume"}

AudioSetters ==
    AudioVolumeSetters \cup
    {"SetAudioQuality", "SetSurroundSoundMode", "SetSpatialAudioEnabled",
     "SetDynamicRange", "SetSubtitleTextSize", "SetSubtitleBackgroundOpacity"}

AudioSetter(a, name, v) ==
    CASE name = "SetMasterVolume" -> [a EXCEPT !.MasterVolume = ClampFloat(v, 0, 1000)]
      [] name = "SetSFXVolume" -> [a EXCEPT !.SFXVolume = ClampFloat(v, 0, 1000)]
      [] name = "SetMusicVolume" -> [a EXCEPT !.MusicVolume = ClampFloat(v, 0, 1000)]
      [] name = "SetVoiceDialogVolume" -> [a EXCEPT !.VoiceDialogVolume = ClampFloat(v, 0, 1000)]
      [] name = "SetAmbientVolume" -> [a EXCEPT !.AmbientVolume = ClampFloat(v, 0, 1000)]
      [] name = "SetUISoundVolume" -> [a EXCEPT !.UISoundVolume = ClampFloat(v, 0, 1000)]
      [] name = "SetVoiceChatVolume" -> [a EXCEPT !.VoiceChatVolume = ClampFloat(v, 0, 1000)]
      [] name = "SetAudioQuality" -> [a EXCEPT !.AudioQuality = ClampInt(v, 0, 3)]
      [] name = "SetSurroundSoundMode" -> [a EXCEPT !.SurroundSoundMode = ClampInt(v, 0, 2)]
      [] name = "SetSpatialAudioEnabled" -> [a EXCEPT !.bEnableSpatialAudio = v]
      [] name = "SetDynamicRange" -> [a EXCEPT !.DynamicRange = ClampFloat(v, 0, 1000)]
      [] name = "SetSubtitleTextSize" -> [a EXCEPT !.SubtitleTextSize = ClampFloat(v, 500, 2000)]
      [] name = "SetSubtitleBackgroundOpacity" ->
             [a EXCEPT !.SubtitleBackgroundOpacity = ClampFloat(v, 0, 1000)]

GameplaySetters ==
    {"SetFOV", "SetMouseSensitivity", "SetControllerSensitivity", "SetControllerDeadZone",
     "SetAimAssistStrength", "SetCameraShakeIntensity", "SetHeadBobIntensity",
     "SetVibrationEnabled", "SetCrouchToggle", "SetSprintToggle", "SetAutoRunEnabled",
     "SetCameraSmoothing"}

GameplaySetter(g, name, v) ==
    CASE name = "SetFOV" -> [g EXCEPT !.FOV = ClampFloat(v, 60000, 120000)]
      [] name = "SetMouseSensitivity" -> [g EXCEPT !.MouseSensitivity = ClampFloat(v, 100, 5000)]
      [] name = "SetControllerSensitivity" ->
             [g EXCEPT !.ControllerSensitivity = ClampFloat(v, 100, 5000)]
      [] name = "SetControllerDeadZone" -> [g EXCEPT !.ControllerDeadZone = ClampFloat(v, 0, 500)]
      [] name = "SetAimAssistStrength" -> [g EXCEPT !.AimAssistStrength = ClampFloat(v, 0, 1000)]
      [] name = "SetCameraShakeIntensity" ->
             [g EXCEPT !.CameraShakeIntensity = ClampFloat(v, 0, 1000)]
      [] name = "SetHeadBobIntensity" -> [g EXCEPT !.HeadBobIntensity = ClampFloat(v, 0, 1000)]
      [] name = "SetVibrationEnabled" -> [g EXCEPT !.bEnableVibration = v]
      [] name = "SetCrouchToggle" -> [g EXCEPT !.bCrouchToggle = v]
      [] name = "SetSprintToggle" -> [g EXCEPT !.bSprintToggle = v]
      [] name = "SetAutoRunEnabled" -> [g EXCEPT !.bEnableAutoRun = v]
      [] name = "SetCameraSmoothing" -> [g EXCEPT !.CameraSmoothing = ClampFloat(v, 0, 1000)]

AccessibilitySetters ==
    {"SetColorblindMode", "SetUIScale", "SetTextSize", "SetHighContrastMode",
     "SetScreenReaderEnabled", "SetReducedMotion", "SetPhotosensitivityMode"}

AccessibilitySetter(a, name, v) ==
    CASE name = "SetColorblindMode" -> [a EXCEPT !.ColorblindMode = v]
      [] name = "SetUIScale" -> [a EXCEPT !.UIScale = ClampFloat(v, 500, 2000)]
      [] name = "SetTextSize" -> [a EXCEPT !.TextSize = ClampFloat(v, 500, 2000)]
      [] name = "SetHighContrastMode" -> [a EXCEPT !.bHighContrastMode = v]
      [] name = "SetScreenReaderEnabled" -> [a EXCEPT !.bEnableScreenReader = v]
      [] name = "SetReducedMotion" -> [a EXCEPT !.bReducedMotion = v]
      [] name = "SetPhotosensitivityMode" -> [a EXCEPT !.bPhotosensitivityMode = v]

NetworkSetters ==
    {"SetMaxPingThreshold", "SetNetworkSmoothing", "SetBandwidthLimit",
     "SetPreferredRegion", "SetCrossplayEnabled"}

\* a crossplay setter that also sends the region back to "Auto"
NetworkSetter_RegionWithCrossplay(n, name, v) ==
    CASE name = "SetMaxPingThreshold" -> [n EXCEPT !.MaxPingThreshold = FMax(0, v)]
      [] name = "SetNetworkSmoothing" -> [n EXCEPT !.NetworkSmoothing = ClampFloat(v, 0, 1000)]
      [] name = "SetBandwidthLimit" -> [n EXCEPT !.BandwidthLimitKBps = FMax(0, v)]
      [] name = "SetPreferredRegion" -> [n EXCEPT !.PreferredRegion = v]
      [] name = "SetCrossplayEnabled" ->
             [n EXCEPT !.bEnableCrossplay = v, !.PreferredRegion = "EU-West"]

NetworkSetter(n, name, v) ==
    CASE name = "SetMaxPingThreshold" -> [n EXCEPT !.MaxPingThreshold = FMax(0, v)]
      [] name = "SetNetworkSmoothing" -> [n EXCEPT !.NetworkSmoothing = ClampFloat(v, 0, 1000)]
      [] name = "SetBandwidthLimit" -> [n EXCEPT !.BandwidthLimitKBps = FMax(0, v)]
      [] name = "SetPreferredRegion" -> [n EXCEPT !.PreferredRegion = v]
      [] name = "SetCrossplayEnabled" -> [n EXCEPT !.bEnableCrossplay = v]

DebugSetters ==
    {"SetPerformanceOverlayVisible", "SetNetworkStatsVisible", "SetDeveloperMode",
     "SetCrashReportingEnabled", "SetBenchmarkMode"}

DebugSetter(d, name, v) ==
    CASE name = "SetPerformanceOverlayVisible" -> [d EXCEPT !.bShowPerformanceOverlay = v]
      [] name = "SetNetworkStatsVisible" -> [d EXCEPT !.bShowNetworkStats = v]
      [] name = "SetDeveloperMode" -> [d EXCEPT !.bDeveloperMode = v]
      [] name = "SetCrashReportingEnabled" -> [d EXCEPT !.bEnableCrashReporting = v]
      [] name = "SetBenchmarkMode" -> [d EXCEPT !.bBenchmarkMode = v]

\* ------------------------------------------------------------------------
\* Engine sinks: UGameUserSettings, the console variables and the platform
\* thread priority.  A sink call is recorded with the category whose apply
\* function issued it; its arguments are a tuple of integers (a bool as 0 or
\* 1, a float in thousandths, an FIntPoint as two integers).
\* ------------------------------------------------------------------------

\* every console variable the manager looks up with FindConsoleVariable
ConsoleVariables ==
    {"r.Lumen.DiffuseIndirect.Allow", "r.RayTracing", "r.AmbientOcclusionLevels",
     "r.SSR.Quality", "r.MotionBlurQuality", "r.BloomQuality", "r.DepthOfFieldQuality",
     "r.LensFlareQuality", "r.SceneColorFringe.Max", "r.Tonemapper.GrainQuantization",
     "r.Tonemapper.Vignette", "r.VolumetricFog", "r.MaxAnisotropy", "r.TemporalAA.Quality",
     "r.TemporalSuperResolution", "r.NGX.DLSS.Enable", "r.FidelityFX.FSR.Enabled",
     "r.Lumen.Reflections.ScreenTraces", "r.ReflectionEnvironment", "r.SSGI.Enable",
     "r.ContactShadows", "r.VSync", "t.MaxFPS", "r.DynamicRes.OperationMode",
     "r.DynamicRes.MinResolutionChangesPerSecond", "r.MaxFrameLatency", "r.AsyncCompute",
     "r.ViewDistanceScale", "r.Tonemapper.Sharpen", "r.HDR.EnableHDROutput",
     "r.HDR.Display.OutputDevice", "r.ScreenPercentage", "au.MasterVolume",
     "r.ColorBlind.Mode", "p.NetClientInterpolation", "stat.FPS", "stat.Unit"}

\* the console variables registered by the upscaler plugins, which an engine
\* build without the plugin does not have
PluginConsoleVariables == {"r.NGX.DLSS.Enable", "r.FidelityFX.FSR.Enabled"}

\* the methods of UGameUserSettings the manager calls
GameUserSettingsMethods ==
    {"SetAntiAliasingQuality", "SetShadowQuality", "SetViewDistanceQuality",
     "SetPostProcessingQuality", "SetTextureQuality", "SetVisualEffectQuality",
     "SetFoliageQuality", "SetShadingQuality", "SetVSyncEnabled", "SetFrameRateLimit",
     "SetScreenResolution", "SetFullscreenMode", "ApplySettings"}

\* the engine environments: which sinks exist
Environments ==
    { [GameUserSettings |-> TRUE, GEngine |-> TRUE, Found |-> ConsoleVariables],
      [GameUserSettings |-> TRUE, GEngine |-> TRUE,
       Found |-> ConsoleVariables \ PluginConsoleVariables],
      [GameUserSettings |-> FALSE, GEngine |-> TRUE, Found |-> ConsoleVariables],
      [GameUserSettings |-> TRUE, GEngine |-> FALSE, Found |-> ConsoleVariables],
      [GameUserSettings |-> FALSE, GEngine |-> FALSE, Found |-> {}],
      [GameUserSettings |-> FALSE, GEngine |-> FALSE,
       Found |-> ConsoleVariables \ PluginConsoleVariables] }

FullEnvironment == [GameUserSettings |-> TRUE, GEngine |-> TRUE, Found |-> ConsoleVariables]

\* b ? 1 : 0, and the general b ? x : y
Cond(b, x, y) == IF b THEN x ELSE y

\* GameSettings-><Method>(Args)
GameUserSettingsCall(cat, Method, Args) ==
    <<[cat |-> cat, sink |-> "GameUserSettings", name |-> Method, args |-> Args]>>

\* a console variable set only while the game user settings exist, as after
\* the early return of the older ApplyPerformanceSettings
SetCVar_NeedsBackend(env, cat, Name, Value) ==
    IF env.GameUserSettings /\ Name \in env.Found
    THEN <<[cat |-> cat, sink |-> "ConsoleVariable", name |-> Name, args |-> <<Value>>]>>
    ELSE <<>>
\* SET_CVAR_INT / SET_CVAR_FLOAT: nothing happens when FindConsoleVariable
\* finds no variable of that name
SetCVar(env, cat, Name, Value) ==
    IF Name \in env.Found
    THEN <<[cat |-> cat, sink |-> "ConsoleVariable", name |-> Name, args |-> <<Value>>]>>
    ELSE <<>>

\* FPlatformProcess::SetThreadPriority(FPlatformProcess::GetCurrentThread(), Priority)
ThreadPriorityCall(cat, Priority) ==
    <<[cat |-> cat, sink |-> "PlatformProcess", name |-> "SetThreadPriority",
       args |-> <<Priority>>]>>

\* EThreadPriority: TPri_Normal, TPri_AboveNormal, TPri_BelowNormal, TPri_Highest
TPri_AboveNormal == 1
TPri_Highest == 3

\* 1 << n for a shift count inside the width of int32
ShiftLeftOne(n) == 2 ^ n

\* UUPMSettingsManager::ApplyGraphicsSettings
ApplyGraphicsSettings(s, env) ==
    IF ~env.GameUserSettings THEN <<>>
    ELSE GameUserSettingsCall("Graphics", "SetAntiAliasingQuality", <<s.Graphics.AntiAliasingQuality>>)
      \o GameUserSettingsCall("Graphics", "SetShadowQuality", <<s.Graphics.ShadowQuality>>)
      \o GameUserSettingsCall("Graphics", "SetViewDistanceQuality", <<s.Graphics.ViewDistanceQuality>>)
      \o GameUserSettingsCall("Graphics", "SetPostProcessingQuality", <<s.Graphics.PostProcessQuality>>)
      \o GameUserSettingsCall("Graphics", "SetTextureQuality", <<s.Graphics.TextureQuality>>)
      \o GameUserSettingsCall("Graphics", "SetVisualEffectQuality", <<s.Graphics.EffectsQuality>>)
      \o GameUserSettingsCall("Graphics", "SetFoliageQuality", <<s.Graphics.FoliageQuality>>)
      \o GameUserSettingsCall("Graphics", "SetShadingQuality", <<s.Graphics.ShadingQuality>>)
      \o GameUserSettingsCall("Graphics", "ApplySettings", <<0>>)

\* the switch on UpscalingMode in ApplyRenderingSettings
UpscalingCalls(r, env) ==
    CASE r.UpscalingMode = EnumValue(EUPMUpscalingMode, "TSR") ->
             SetCVar(env, "Rendering", "r.TemporalSuperResolution", 1)
      [] r.UpscalingMode = EnumValue(EUPMUpscalingMode, "DLSS") ->
             SetCVar(env, "Rendering", "r.NGX.DLSS.Enable", 1)
      [] r.UpscalingMode = EnumValue(EUPMUpscalingMode, "FSR") ->
             SetCVar(env, "Rendering", "r.FidelityFX.FSR.Enabled", 1)
      [] OTHER -> <<>>

\* UUPMSettingsManager::ApplyRenderingSettings
ApplyRenderingSettings(s, env) ==
    LET r == s.Rendering
        AnisotropyValue == Cond(r.AnisotropicFiltering > 0, ShiftLeftOne(r.AnisotropicFiltering), 0)
    IN  IF ~env.GEngine THEN <<>>
        ELSE SetCVar(env, "Rendering", "r.Lumen.DiffuseIndirect.Allow", Cond(r.bEnableLumen, 1, 0))
          \o SetCVar(env, "Rendering", "r.RayTracing", Cond(r.bEnableRayTracing, 1, 0))
          \o SetCVar(env, "Rendering", "r.AmbientOcclusionLevels", Cond(r.bEnableSSAO, 3, 0))
          \o SetCVar(env, "Rendering", "r.SSR.Quality", Cond(r.bEnableSSR, 3, 0))
          \o SetCVar(env, "Rendering", "r.MotionBlurQuality", Cond(r.bEnableMotionBlur, 4, 0))
          \o SetCVar(env, "Rendering", "r.BloomQuality", Cond(r.bEnableBloom, 5, 0))
          \o SetCVar(env, "Rendering", "r.DepthOfFieldQuality", Cond(r.bEnableDepthOfField, 2, 0))
          \o SetCVar(env, "Rendering", "r.LensFlareQuality", Cond(r.bEnableLensFlares, 2, 0))
          \o SetCVar(env, "Rendering", "r.SceneColorFringe.Max",
                     Cond(r.bEnableChromaticAberration, 5 * FloatScale, 0))
          \o SetCVar(env, "Rendering", "r.Tonemapper.GrainQuantization",
                     Cond(r.bEnableFilmGrain, FloatScale, 0))
          \o SetCVar(env, "Rendering", "r.Tonemapper.Vignette", Cond(r.bEnableVignette, 400, 0))
          \o SetCVar(env, "Rendering", "r.VolumetricFog", Cond(r.bEnableVolumetricFog, 1, 0))
          \o SetCVar(env, "Rendering", "r.MaxAnisotropy", AnisotropyValue)
          \o SetCVar(env, "Rendering", "r.TemporalAA.Quality", Cond(r.bEnableTAA, 2, 0))
          \o UpscalingCalls(r, env)
          \o SetCVar(env, "Rendering", "r.Lumen.Reflections.ScreenTraces", r.GlobalIlluminationQuality)
          \o SetCVar(env, "Rendering", "r.ReflectionEnvironment", Cond(r.ReflectionQuality > 0, 1, 0))
          \o SetCVar(env, "Rendering", "r.SSGI.Enable", Cond(r.bEnableSSGI, 1, 0))
          \o SetCVar(env, "Rendering", "r.ContactShadows", Cond(r.bEnableContactShadows, 1, 0))

\* UUPMSettingsManager::ApplyPerformanceSettings
ApplyPerformanceSettings(s, env) ==
    LET p == s.Performance
    IN  Cond(env.GameUserSettings,
             GameUserSettingsCall("Performance", "SetVSyncEnabled", <<Cond(p.bEnableVSync, 1, 0)>>)
               \o GameUserSettingsCall("Performance", "SetFrameRateLimit",
                                       <<Cond(p.FrameRateLimit > 0, p.FrameRateLimit, 0)>>)
               \o GameUserSettingsCall("Performance", "ApplySettings", <<0>>),
             <<>>)
          \o SetCVar(env, "Performance", "r.VSync", Cond(p.bEnableVSync, 1, 0))
          \o SetCVar(env, "Performance", "t.MaxFPS", p.FrameRateLimit)
          \o SetCVar(env, "Performance", "r.DynamicRes.OperationMode",
                     Cond(p.bEnableDynamicResolution, 2, 0))
          \o SetCVar(env, "Performance", "r.DynamicRes.MinResolutionChangesPerSecond",
                     FloatDiv(1000 * FloatScale * FloatScale, p.MinFrameRateForDynamicRes + 10))
          \o SetCVar(env, "Performance", "r.MaxFrameLatency", Cond(p.bEnableTripleBuffering, 3, 2))
          \o SetCVar(env, "Performance", "r.AsyncCompute", Cond(p.bEnableAsyncCompute, 1, 0))
          \o SetCVar(env, "Performance", "r.ViewDistanceScale", p.LODDistanceMultiplier)
          \o (CASE p.ProcessPriority = 1 -> ThreadPriorityCall("Performance", TPri_AboveNormal)
                [] p.ProcessPriority = 2 -> ThreadPriorityCall("Performance", TPri_Highest)
                [] OTHER -> <<>>)

\* UUPMSettingsManager::ApplyDisplaySettings
ApplyDisplaySettings(s, env) ==
    LET d == s.Display
    IN  Cond(env.GameUserSettings,
             GameUserSettingsCall("Display", "SetScreenResolution", <<d.Resolution.X, d.Resolution.Y>>)
               \o GameUserSettingsCall("Display", "SetFullscreenMode", <<d.WindowMode>>)
               \o GameUserSettingsCall("Display", "ApplySettings", <<0>>),
             <<>>)
          \o SetCVar(env, "Display", "r.Tonemapper.Sharpen", d.Brightness - FloatScale)
          \o SetCVar(env, "Display", "r.HDR.EnableHDROutput", Cond(d.bEnableHDR, 1, 0))
          \o SetCVar(env, "Display", "r.HDR.Display.OutputDevice", d.HDRMaxNits)
          \o SetCVar(env, "Display", "r.ScreenPercentage", d.ScreenPercentage)

\* UUPMSettingsManager::ApplyAudioSettings
ApplyAudioSettings(s, env) ==
    SetCVar(env, "Audio", "au.MasterVolume", s.Audio.MasterVolume)

\* UUPMSettingsManager::ApplyGameplaySettings: no sink is called
ApplyGameplaySettings(s, env) == <<>>

\* UUPMSettingsManager::ApplyAccessibilitySettings
ApplyAccessibilitySettings(s, env) ==
    LET a == s.Accessibility
    IN  SetCVar(env, "Accessibility", "r.ColorBlind.Mode", a.ColorblindMode)
          \o Cond(a.bPhotosensitivityMode,
                  SetCVar(env, "Accessibility", "r.BloomQuality", 0)
                    \o SetCVar(env, "Accessibility", "r.MotionBlurQuality", 0)
                    \o SetCVar(env, "Accessibility", "r.LensFlareQuality", 0),
                  <<>>)
          \o Cond(a.bReducedMotion, SetCVar(env, "Accessibility", "r.MotionBlurQuality", 0), <<>>)

\* UUPMSettingsManager::ApplyNetworkSettings
ApplyNetworkSettings(s, env) ==
    SetCVar(env, "Network", "p.NetClientInterpolation", s.Network.NetworkSmoothing)

\* UUPMSettingsManager::ApplyDebugSettings
ApplyDebugSettings(s, env) ==
    LET d == s.Debug
    IN  SetCVar(env, "Debug", "stat.FPS", Cond(d.bShowPerformanceOverlay, 1, 0))
          \o SetCVar(env, "Debug", "stat.Unit", Cond(d.bShowPerformanceOverlay, 1, 0))
          \o Cond(d.bBenchmarkMode, SetCVar(env, "Debug", "r.VSync", 0), <<>>)

\* the apply function of a category, by the category's name
ApplyCategory(cat, s, env) ==
    CASE cat = "Graphics" -> ApplyGraphicsSettings(s, env)
      [] cat = "Rendering" -> ApplyRenderingSettings(s, env)
      [] cat = "Performance" -> ApplyPerformanceSettings(s, env)
      [] cat = "Display" -> ApplyDisplaySettings(s, env)
      [] cat = "Audio" -> ApplyAudioSettings(s, env)
      [] cat = "Gameplay" -> ApplyGameplaySettings(s, env)
      [] cat = "Accessibility" -> ApplyAccessibilitySettings(s, env)
      [] cat = "Network" -> ApplyNetworkSettings(s, env)
      [] cat = "Debug" -> ApplyDebugSettings(s, env)

\* the categories applied by the older revision of ApplyAllSettings
ApplyAllOrder_SixCategories ==
    <<"Graphics", "Rendering", "Performance", "Display", "Audio", "Gameplay">>
\* UUPMSettingsManager::ApplyAllSettings: the apply functions it calls, in order
ApplyAllOrder ==
    <<"Graphics", "Rendering", "Performance", "Display", "Audio", "Gameplay",
      "Accessibility", "Network", "Debug">>

\* the target of a sink call: the sink and the method or variable name
TargetOf(call) == <<call.sink, call.name>>

Targets ==
    ({"GameUserSettings"} \X GameUserSettingsMethods)
      \cup ({"ConsoleVariable"} \X ConsoleVariables)
      \cup {<<"PlatformProcess", "SetThreadPriority">>}

\* the sink that drops a call whose arguments it already holds
Deliver_OnlyChanges(state, calls) ==
    SelectSeq(calls, LAMBDA c : state[TargetOf(c)] # c.args)
\* the calls that reach the sinks: every call the apply function makes
Deliver(state, calls) == calls

\* the sinks after a sequence of calls: each target holds the arguments of the
\* last call made on it
SinksAfter(state, calls) ==
    [t \in Targets |->
        IF \E i \in 1..Len(calls) : TargetOf(calls[i]) = t
        THEN calls[CHOOSE i \in 1..Len(calls) :
                      /\ TargetOf(calls[i]) = t
                      /\ \A j \in (i + 1)..Len(calls) : TargetOf(calls[j]) # t].args
        ELSE state[t]]

\* the calls of a sequence of apply functions run one after the other
RECURSIVE ApplyInOrder(_, _, _)
ApplyInOrder(order, s, env) ==
    IF order = <<>> THEN <<>>
    ELSE ApplyCategory(Head(order), s, env) \o ApplyInOrder(Tail(order), s, env)

\* no sink has been called yet
NoSinkState == [t \in Targets |-> <<>>]

\* ------------------------------------------------------------------------
\* Persistence: the JSON document.  A JSON value carries its type; a number
\* is a double, kept in thousandths like a float.  A JSON object is a
\* function from its keys to its values.
\* ------------------------------------------------------------------------

JsonNumber(x) == [Type |-> "Number", Number |-> x, Boolean |-> FALSE, String |-> ""]
JsonBoolean(b) == [Type |-> "Boolean", Number |-> 0, Boolean |-> b, String |-> ""]
JsonString(str) == [Type |-> "String", Number |-> 0, Boolean |-> FALSE, String |-> str]

\* SetNumberField of an int32: the implicit conversion to double
Int32AsNumber(n) == n * FloatScale

\* SetNumberField of a float: the implicit conversion to double
FloatAsNumber(f) == f

\* TryGetNumberField into an int32: the double rounded to the nearest integer,
\* halves away from zero
NumberAsInt32(x) ==
    IF x >= 0 THEN (x + FloatScale \div 2) \div FloatScale
    ELSE 0 - ((0 - x + FloatScale \div 2) \div FloatScale)

\* TryGetNumberField into a float: the double narrowed to float
NumberAsFloat(x) == x

\* FJsonObject::HasField
HasField(o, key) == key \in DOMAIN o

\* TryGetNumberField(key, int32&): writes the target only when the field exists
TryGetInt32Field(o, key, Current) ==
    IF HasField(o, key) /\ o[key].Type = "Number" THEN NumberAsInt32(o[key].Number) ELSE Current

\* a decoder that applies the range of SetFOV to the field FOV
TryGetFloatField_ClampsFOV(o, key, Current) ==
    IF HasField(o, key) /\ o[key].Type = "Number"
    THEN IF key = "FOV"
         THEN ClampFloat(NumberAsFloat(o[key].Number), 60 * FloatScale, 120 * FloatScale)
         ELSE NumberAsFloat(o[key].Number)
    ELSE Current
\* TryGetNumberField(key, float&)
TryGetFloatField(o, key, Current) ==
    IF HasField(o, key) /\ o[key].Type = "Number" THEN NumberAsFloat(o[key].Number) ELSE Current

\* TryGetBoolField(key, bool&)
TryGetBoolField(o, key, Current) ==
    IF HasField(o, key) /\ o[key].Type = "Boolean" THEN o[key].Boolean ELSE Current

\* TryGetStringField(key, FString&)
TryGetStringField(o, key, Current) ==
    IF HasField(o, key) /\ o[key].Type = "String" THEN o[key].String ELSE Current

\* TryGetObjectField(key, const TSharedPtr<FJsonObject>*&) on the root object
TryGetObjectField(JsonObject, key) == key \in DOMAIN JsonObject

\* SettingsToJson, one object per category
GraphicsToJson(g) ==
    [ AntiAliasingQuality |-> JsonNumber(Int32AsNumber(g.AntiAliasingQuality)),
      ShadowQuality |-> JsonNumber(Int32AsNumber(g.ShadowQuality)),
      ViewDistanceQuality |-> JsonNumber(Int32AsNumber(g.ViewDistanceQuality)),
      PostProcessQuality |-> JsonNumber(Int32AsNumber(g.PostProcessQuality)),
      TextureQuality |-> JsonNumber(Int32AsNumber(g.TextureQuality)),
      EffectsQuality |-> JsonNumber(Int32AsNumber(g.EffectsQuality)),
      FoliageQuality |-> JsonNumber(Int32AsNumber(g.FoliageQuality)),
      ShadingQuality |-> JsonNumber(Int32AsNumber(g.ShadingQuality)) ]

RenderingToJson(r) ==
    [ EnableLumen |-> JsonBoolean(r.bEnableLumen),
      EnableRayTracing |-> JsonBoolean(r.bEnableRayTracing),
      EnableSSAO |-> JsonBoolean(r.bEnableSSAO),
      EnableSSR |-> JsonBoolean(r.bEnableSSR),
      EnableMotionBlur |-> JsonBoolean(r.bEnableMotionBlur),
      EnableBloom |-> JsonBoolean(r.bEnableBloom),
      EnableDepthOfField |-> JsonBoolean(r.bEnableDepthOfField),
      EnableLensFlares |-> JsonBoolean(r.bEnableLensFlares),
      EnableChromaticAberration |-> JsonBoolean(r.bEnableChromaticAberration),
      EnableFilmGrain |-> JsonBoolean(r.bEnableFilmGrain),
      EnableVignette |-> JsonBoolean(r.bEnableVignette),
      EnableVolumetricFog |-> JsonBoolean(r.bEnableVolumetricFog),
      AnisotropicFiltering |-> JsonNumber(Int32AsNumber(r.AnisotropicFiltering)),
      EnableTAA |-> JsonBoolean(r.bEnableTAA),
      UpscalingMode |-> JsonNumber(Int32AsNumber(r.UpscalingMode)),
      GlobalIlluminationQuality |-> JsonNumber(Int32AsNumber(r.GlobalIlluminationQuality)),
      ReflectionQuality |-> JsonNumber(Int32AsNumber(r.ReflectionQuality)),
      EnableSSGI |-> JsonBoolean(r.bEnableSSGI),
      EnableContactShadows |-> JsonBoolean(r.bEnableContactShadows) ]

PerformanceToJson(p) ==
    [ EnableVSync |-> JsonBoolean(p.bEnableVSync),
      FrameRateLimit |-> JsonNumber(FloatAsNumber(p.FrameRateLimit)),
      EnableDynamicResolution |-> JsonBoolean(p.bEnableDynamicResolution),
      MinFrameRateForDynamicRes |-> JsonNumber(FloatAsNumber(p.MinFrameRateForDynamicRes)),
      EnableTripleBuffering |-> JsonBoolean(p.bEnableTripleBuffering),
      EnableAsyncCompute |-> JsonBoolean(p.bEnableAsyncCompute),
      LODDistanceMultiplier |-> JsonNumber(FloatAsNumber(p.LODDistanceMultiplier)),
      ProcessPriority |-> JsonNumber(Int32AsNumber(p.ProcessPriority)) ]

DisplayToJson(d) ==
    [ ResolutionX |-> JsonNumber(Int32AsNumber(d.Resolution.X)),
      ResolutionY |-> JsonNumber(Int32AsNumber(d.Resolution.Y)),
      WindowMode |-> JsonNumber(Int32AsNumber(d.WindowMode)),
      Brightness |-> JsonNumber(FloatAsNumber(d.Brightness)),
      Contrast |-> JsonNumber(FloatAsNumber(d.Contrast)),
      EnableHDR |-> JsonBoolean(d.bEnableHDR),
      HDRMaxNits |-> JsonNumber(FloatAsNumber(d.HDRMaxNits)),
      MonitorIndex |-> JsonNumber(Int32AsNumber(d.MonitorIndex)),
      BorderlessWindow |-> JsonBoolean(d.bBorderlessWindow),
      ScreenPercentage |-> JsonNumber(FloatAsNumber(d.ScreenPercentage)),
      MenuFieldOfView |-> JsonNumber(FloatAsNumber(d.MenuFieldOfView)),
      AspectRatioOverride |-> JsonNumber(FloatAsNumber(d.AspectRatioOverride)),
      SafeZoneScale |-> JsonNumber(FloatAsNumber(d.SafeZoneScale)) ]

AudioToJson(a) ==
    [ MasterVolume |-> JsonNumber(FloatAsNumber(a.MasterVolume)),
      SFXVolume |-> JsonNumber(FloatAsNumber(a.SFXVolume)),
      MusicVolume |-> JsonNumber(FloatAsNumber(a.MusicVolume)),
      VoiceDialogVolume |-> JsonNumber(FloatAsNumber(a.VoiceDialogVolume)),
      AmbientVolume |-> JsonNumber(FloatAsNumber(a.AmbientVolume)),
      UISoundVolume |-> JsonNumber(FloatAsNumber(a.UISoundVolume)),
      VoiceChatVolume |-> JsonNumber(FloatAsNumber(a.VoiceChatVolume)),
      AudioQuality |-> JsonNumber(Int32AsNumber(a.AudioQuality)),
      SurroundSoundMode |-> JsonNumber(Int32AsNumber(a.SurroundSoundMode)),
      EnableSpatialAudio |-> JsonBoolean(a.bEnableSpatialAudio),
      DynamicRange |-> JsonNumber(FloatAsNumber(a.DynamicRange)),
      SubtitleTextSize |-> JsonNumber(FloatAsNumber(a.SubtitleTextSize)),
      SubtitleBackgroundOpacity |-> JsonNumber(FloatAsNumber(a.SubtitleBackgroundOpacity)) ]

GameplayToJson(g) ==
    [ FOV |-> JsonNumber(FloatAsNumber(g.FOV)),
      MouseSensitivity |-> JsonNumber(FloatAsNumber(g.MouseSensitivity)),
      InvertMouseY |-> JsonBoolean(g.bInvertMouseY),
      ControllerSensitivity |-> JsonNumber(FloatAsNumber(g.ControllerSensitivity)),
      ControllerDeadZone |-> JsonNumber(FloatAsNumber(g.ControllerDeadZone)),
      AimAssistStrength |-> JsonNumber(FloatAsNumber(g.AimAssistStrength)),
      CameraShakeIntensity |-> JsonNumber(FloatAsNumber(g.CameraShakeIntensity)),
      HeadBobIntensity |-> JsonNumber(FloatAsNumber(g.HeadBobIntensity)),
      EnableVibration |-> JsonBoolean(g.bEnableVibration),
      CrouchToggle |-> JsonBoolean(g.bCrouchToggle),
      SprintToggle |-> JsonBoolean(g.bSprintToggle),
      EnableAutoRun |-> JsonBoolean(g.bEnableAutoRun),
      CameraSmoothing |-> JsonNumber(FloatAsNumber(g.CameraSmoothing)) ]

AccessibilityToJson(a) ==
    [ ColorblindMode |-> JsonNumber(Int32AsNumber(a.ColorblindMode)),
      UIScale |-> JsonNumber(FloatAsNumber(a.UIScale)),
      TextSize |-> JsonNumber(FloatAsNumber(a.TextSize)),
      HighContrastMode |-> JsonBoolean(a.bHighContrastMode),
      EnableScreenReader |-> JsonBoolean(a.bEnableScreenReader),
      ReducedMotion |-> JsonBoolean(a.bReducedMotion),
      PhotosensitivityMode |-> JsonBoolean(a.bPhotosensitivityMode) ]

NetworkToJson(n) ==
    [ MaxPingThreshold |-> JsonNumber(Int32AsNumber(n.MaxPingThreshold)),
      NetworkSmoothing |-> JsonNumber(FloatAsNumber(n.NetworkSmoothing)),
      BandwidthLimitKBps |-> JsonNumber(Int32AsNumber(n.BandwidthLimitKBps)),
      PreferredRegion |-> JsonString(n.PreferredRegion),
      EnableCrossplay |-> JsonBoolean(n.bEnableCrossplay) ]

DebugToJson(d) ==
    [ ShowPerformanceOverlay |-> JsonBoolean(d.bShowPerformanceOverlay),
      ShowNetworkStats |-> JsonBoolean(d.bShowNetworkStats),
      DeveloperMode |-> JsonBoolean(d.bDeveloperMode),
      EnableCrashReporting |-> JsonBoolean(d.bEnableCrashReporting),
      BenchmarkMode |-> JsonBoolean(d.bBenchmarkMode) ]

\* UUPMSettingsManager::SettingsToJson
SettingsToJson(s) ==
    [ Graphics |-> GraphicsToJson(s.Graphics),
      Rendering |-> RenderingToJson(s.Rendering),
      Performance |-> PerformanceToJson(s.Performance),
      Display |-> DisplayToJson(s.Display),
      Audio |-> AudioToJson(s.Audio),
      Gameplay |-> GameplayToJson(s.Gameplay),
      Accessibility |-> AccessibilityToJson(s.Accessibility),
      Network |-> NetworkToJson(s.Network),
      Debug |-> DebugToJson(s.Debug) ]

\* JsonToSettings, one category at a time: o is the category's object
GraphicsFromJson(g, o) ==
    [g EXCEPT !.AntiAliasingQuality = TryGetInt32Field(o, "AntiAliasingQuality", @),
              !.ShadowQuality = TryGetInt32Field(o, "ShadowQuality", @),
              !.ViewDistanceQuality = TryGetInt32Field(o, "ViewDistanceQuality", @),
              !.PostProcessQuality = TryGetInt32Field(o, "PostProcessQuality", @),
              !.TextureQuality = TryGetInt32Field(o, "TextureQuality", @),
              !.EffectsQuality = TryGetInt32Field(o, "EffectsQuality", @),
              !.FoliageQuality = TryGetInt32Field(o, "FoliageQuality", @),
              !.ShadingQuality = TryGetInt32Field(o, "ShadingQuality", @)]

RenderingFromJson(r, o) ==
    [r EXCEPT !.bEnableLumen = TryGetBoolField(o, "EnableLumen", @),
              !.bEnableRayTracing = TryGetBoolField(o, "EnableRayTracing", @),
              !.bEnableSSAO = TryGetBoolField(o, "EnableSSAO", @),
              !.bEnableSSR = TryGetBoolField(o, "EnableSSR", @),
              !.bEnableMotionBlur = TryGetBoolField(o, "EnableMotionBlur", @),
              !.bEnableBloom = TryGetBoolField(o, "EnableBloom", @),
              !.bEnableDepthOfField = TryGetBoolField(o, "EnableDepthOfField", @),
              !.bEnableLensFlares = TryGetBoolField(o, "EnableLensFlares", @),
              !.bEnableChromaticAberration = TryGetBoolField(o, "EnableChromaticAberration", @),
              !.bEnableFilmGrain = TryGetBoolField(o, "EnableFilmGrain", @),
              !.bEnableVignette = TryGetBoolField(o, "EnableVignette", @),
              !.bEnableVolumetricFog = TryGetBoolField(o, "EnableVolumetricFog", @),
              !.AnisotropicFiltering = TryGetInt32Field(o, "AnisotropicFiltering", @),
              !.bEnableTAA = TryGetBoolField(o, "EnableTAA", @),
              !.UpscalingMode = ToEnumByte(TryGetInt32Field(o, "UpscalingMode", 0)),
              !.GlobalIlluminationQuality = TryGetInt32Field(o, "GlobalIlluminationQuality", @),
              !.ReflectionQuality = TryGetInt32Field(o, "ReflectionQuality", @),
              !.bEnableSSGI = TryGetBoolField(o, "EnableSSGI", @),
              !.bEnableContactShadows = TryGetBoolField(o, "EnableContactShadows", @)]

PerformanceFromJson(p, o) ==
    [p EXCEPT !.bEnableVSync = TryGetBoolField(o, "EnableVSync", @),
              !.FrameRateLimit = TryGetFloatField(o, "FrameRateLimit", @),
              !.bEnableDynamicResolution = TryGetBoolField(o, "EnableDynamicResolution", @),
              !.MinFrameRateForDynamicRes = TryGetFloatField(o, "MinFrameRateForDynamicRes", @),
              !.bEnableTripleBuffering = TryGetBoolField(o, "EnableTripleBuffering", @),
              !.bEnableAsyncCompute = TryGetBoolField(o, "EnableAsyncCompute", @),
              !.LODDistanceMultiplier = TryGetFloatField(o, "LODDistanceMultiplier", @),
              !.ProcessPriority = TryGetInt32Field(o, "ProcessPriority", @)]

DisplayFromJson(d, o) ==
    [d EXCEPT !.Resolution = [X |-> TryGetInt32Field(o, "ResolutionX", 1920), Y |-> TryGetInt32Field(o, "ResolutionY", 1080)],
              !.WindowMode = ToEnumByte(TryGetInt32Field(o, "WindowMode", 0)),
              !.Brightness = TryGetFloatField(o, "Brightness", @),
              !.Contrast = TryGetFloatField(o, "Contrast", @),
              !.bEnableHDR = TryGetBoolField(o, "EnableHDR", @),
              !.HDRMaxNits = TryGetFloatField(o, "HDRMaxNits", @),
              !.MonitorIndex = TryGetInt32Field(o, "MonitorIndex", @),
              !.bBorderlessWindow = TryGetBoolField(o, "BorderlessWindow", @),
              !.ScreenPercentage = TryGetFloatField(o, "ScreenPercentage", @),
              !.MenuFieldOfView = TryGetFloatField(o, "MenuFieldOfView", @),
              !.AspectRatioOverride = TryGetFloatField(o, "AspectRatioOverride", @),
              !.SafeZoneScale = TryGetFloatField(o, "SafeZoneScale", @)]

AudioFromJson(a, o) ==
    [a EXCEPT !.MasterVolume = TryGetFloatField(o, "MasterVolume", @),
              !.SFXVolume = TryGetFloatField(o, "SFXVolume", @),
              !.MusicVolume = TryGetFloatField(o, "MusicVolume", @),
              !.VoiceDialogVolume = TryGetFloatField(o, "VoiceDialogVolume", @),
              !.AmbientVolume = TryGetFloatField(o, "AmbientVolume", @),
              !.UISoundVolume = TryGetFloatField(o, "UISoundVolume", @),
              !.VoiceChatVolume = TryGetFloatField(o, "VoiceChatVolume", @),
              !.AudioQuality = TryGetInt32Field(o, "AudioQuality", @),
              !.SurroundSoundMode = TryGetInt32Field(o, "SurroundSoundMode", @),
              !.bEnableSpatialAudio = TryGetBoolField(o, "EnableSpatialAudio", @),
              !.DynamicRange = TryGetFloatField(o, "DynamicRange", @),
              !.SubtitleTextSize = TryGetFloatField(o, "SubtitleTextSize", @),
              !.SubtitleBackgroundOpacity = TryGetFloatField(o, "SubtitleBackgroundOpacity", @)]

GameplayFromJson(g, o) ==
    [g EXCEPT !.FOV = TryGetFloatField(o, "FOV", @),
              !.MouseSensitivity = TryGetFloatField(o, "MouseSensitivity", @),
              !.bInvertMouseY = TryGetBoolField(o, "InvertMouseY", @),
              !.ControllerSensitivity = TryGetFloatField(o, "ControllerSensitivity", @),
              !.ControllerDeadZone = TryGetFloatField(o, "ControllerDeadZone", @),
              !.AimAssistStrength = TryGetFloatField(o, "AimAssistStrength", @),
              !.CameraShakeIntensity = TryGetFloatField(o, "CameraShakeIntensity", @),
              !.HeadBobIntensity = TryGetFloatField(o, "HeadBobIntensity", @),
              !.bEnableVibration = TryGetBoolField(o, "EnableVibration", @),
              !.bCrouchToggle = TryGetBoolField(o, "CrouchToggle", @),
              !.bSprintToggle = TryGetBoolField(o, "SprintToggle", @),
              !.bEnableAutoRun = TryGetBoolField(o, "EnableAutoRun", @),
              !.CameraSmoothing = TryGetFloatField(o, "CameraSmoothing", @)]

AccessibilityFromJson(a, o) ==
    [a EXCEPT !.ColorblindMode = ToEnumByte(TryGetInt32Field(o, "ColorblindMode", 0)),
              !.UIScale = TryGetFloatField(o, "UIScale", @),
              !.TextSize = TryGetFloatField(o, "TextSize", @),
              !.bHighContrastMode = TryGetBoolField(o, "HighContrastMode", @),
              !.bEnableScreenReader = TryGetBoolField(o, "EnableScreenReader", @),
              !.bReducedMotion = TryGetBoolField(o, "ReducedMotion", @),
              !.bPhotosensitivityMode = TryGetBoolField(o, "PhotosensitivityMode", @)]

NetworkFromJson(n, o) ==
    [n EXCEPT !.MaxPingThreshold = TryGetInt32Field(o, "MaxPingThreshold", @),
              !.NetworkSmoothing = TryGetFloatField(o, "NetworkSmoothing", @),
              !.BandwidthLimitKBps = TryGetInt32Field(o, "BandwidthLimitKBps", @),
              !.PreferredRegion = TryGetStringField(o, "PreferredRegion", @),
              !.bEnableCrossplay = TryGetBoolField(o, "EnableCrossplay", @)]

DebugFromJson(d, o) ==
    [d EXCEPT !.bShowPerformanceOverlay = TryGetBoolField(o, "ShowPerformanceOverlay", @),
              !.bShowNetworkStats = TryGetBoolField(o, "ShowNetworkStats", @),
              !.bDeveloperMode = TryGetBoolField(o, "DeveloperMode", @),
              !.bEnableCrashReporting = TryGetBoolField(o, "EnableCrashReporting", @),
              !.bBenchmarkMode = TryGetBoolField(o, "BenchmarkMode", @)]

\* UUPMSettingsManager::JsonToSettings, for a valid JsonObject: the settings it
\* leaves in CurrentSettings
JsonToSettings(s, JsonObject) ==
    [ Graphics |-> IF TryGetObjectField(JsonObject, "Graphics")
                  THEN GraphicsFromJson(s.Graphics, JsonObject.Graphics) ELSE s.Graphics,
      Rendering |-> IF TryGetObjectField(JsonObject, "Rendering")
                   THEN RenderingFromJson(s.Rendering, JsonObject.Rendering) ELSE s.Rendering,
      Performance |-> IF TryGetObjectField(JsonObject, "Performance")
                     THEN PerformanceFromJson(s.Performance, JsonObject.Performance) ELSE s.Performance,
      Display |-> IF TryGetObjectField(JsonObject, "Display")
                 THEN DisplayFromJson(s.Display, JsonObject.Display) ELSE s.Display,
      Audio |-> IF TryGetObjectField(JsonObject, "Audio")
               THEN AudioFromJson(s.Audio, JsonObject.Audio) ELSE s.Audio,
      Gameplay |-> IF TryGetObjectField(JsonObject, "Gameplay")
                  THEN GameplayFromJson(s.Gameplay, JsonObject.Gameplay) ELSE s.Gameplay,
      Accessibility |-> IF TryGetObjectField(JsonObject, "Accessibility")
                       THEN AccessibilityFromJson(s.Accessibility, JsonObject.Accessibility) ELSE s.Accessibility,
      Network |-> IF TryGetObjectField(JsonObject, "Network")
                 THEN NetworkFromJson(s.Network, JsonObject.Network) ELSE s.Network,
      Debug |-> IF TryGetObjectField(JsonObject, "Debug")
               THEN DebugFromJson(s.Debug, JsonObject.Debug) ELSE s.Debug ]


\* ------------------------------------------------------------------------
\* Inputs: for each category a settings value that differs from the default
\* in every field, handed to the bulk setters and written into documents
\* ------------------------------------------------------------------------

ChangedGraphics ==
    [ AntiAliasingQuality |-> 2,
      ShadowQuality |-> 2,
      ViewDistanceQuality |-> 2,
      PostProcessQuality |-> 2,
      TextureQuality |-> 2,
      EffectsQuality |-> 2,
      FoliageQuality |-> 2,
      ShadingQuality |-> 2 ]

ChangedRendering ==
    [ bEnableLumen |-> FALSE,
      bEnableRayTracing |-> TRUE,
      bEnableSSAO |-> FALSE,
      bEnableSSR |-> FALSE,
      bEnableMotionBlur |-> FALSE,
      bEnableBloom |-> FALSE,
      bEnableDepthOfField |-> FALSE,
      bEnableLensFlares |-> FALSE,
      bEnableChromaticAberration |-> TRUE,
      bEnableFilmGrain |-> TRUE,
      bEnableVignette |-> FALSE,
      bEnableVolumetricFog |-> FALSE,
      AnisotropicFiltering |-> 2,
      bEnableTAA |-> FALSE,
      UpscalingMode |-> EnumValue(EUPMUpscalingMode, "FSR"),
      GlobalIlluminationQuality |-> 2,
      ReflectionQuality |-> 2,
      bEnableSSGI |-> TRUE,
      bEnableContactShadows |-> FALSE ]

ChangedPerformance ==
    [ bEnableVSync |-> FALSE,
      FrameRateLimit |-> 144 * FloatScale,
      bEnableDynamicResolution |-> TRUE,
      MinFrameRateForDynamicRes |-> 45 * FloatScale,
      bEnableTripleBuffering |-> TRUE,
      bEnableAsyncCompute |-> FALSE,
      LODDistanceMultiplier |-> 2 * FloatScale,
      ProcessPriority |-> 1 ]

ChangedDisplay ==
    [ Resolution |-> [X |-> 1280, Y |-> 720],
      WindowMode |-> EnumValue(EWindowMode, "Windowed"),
      Brightness |-> 1250,
      Contrast |-> 1250,
      bEnableHDR |-> TRUE,
      HDRMaxNits |-> 4000 * FloatScale,
      MonitorIndex |-> 1,
      bBorderlessWindow |-> TRUE,
      ScreenPercentage |-> 75 * FloatScale,
      MenuFieldOfView |-> 100 * FloatScale,
      AspectRatioOverride |-> 1777,
      SafeZoneScale |-> 900 ]

ChangedAudio ==
    [ MasterVolume |-> 750,
      SFXVolume |-> 750,
      MusicVolume |-> 550,
      VoiceDialogVolume |-> 750,
      AmbientVolume |-> 450,
      UISoundVolume |-> 650,
      VoiceChatVolume |-> 750,
      AudioQuality |-> 1,
      SurroundSoundMode |-> 1,
      bEnableSpatialAudio |-> TRUE,
      DynamicRange |-> 250,
      SubtitleTextSize |-> 750,
      SubtitleBackgroundOpacity |-> 250 ]

\* a gameplay category built by the caller with a field of view no setter
\* would store
OutOfRangeGameplay == [DefaultGameplay EXCEPT !.FOV = 500 * FloatScale]

ChangedGameplay ==
    [ FOV |-> 110 * FloatScale,
      MouseSensitivity |-> 750,
      bInvertMouseY |-> TRUE,
      ControllerSensitivity |-> 750,
      ControllerDeadZone |-> 300,
      AimAssistStrength |-> 250,
      CameraShakeIntensity |-> 750,
      HeadBobIntensity |-> 250,
      bEnableVibration |-> FALSE,
      bCrouchToggle |-> TRUE,
      bSprintToggle |-> TRUE,
      bEnableAutoRun |-> TRUE,
      CameraSmoothing |-> 250 ]

ChangedAccessibility ==
    [ ColorblindMode |-> EnumValue(EUPMColorblindMode, "Protanopia"),
      UIScale |-> 750,
      TextSize |-> 750,
      bHighContrastMode |-> TRUE,
      bEnableScreenReader |-> TRUE,
      bReducedMotion |-> TRUE,
      bPhotosensitivityMode |-> TRUE ]

ChangedNetwork ==
    [ MaxPingThreshold |-> 80,
      NetworkSmoothing |-> 250,
      BandwidthLimitKBps |-> 512,
      PreferredRegion |-> "EU-West",
      bEnableCrossplay |-> FALSE ]

ChangedDebug ==
    [ bShowPerformanceOverlay |-> TRUE,
      bShowNetworkStats |-> TRUE,
      bDeveloperMode |-> TRUE,
      bEnableCrashReporting |-> FALSE,
      bBenchmarkMode |-> TRUE ]

ChangedSettings ==
    [ Graphics |-> ChangedGraphics,
      Rendering |-> ChangedRendering,
      Performance |-> ChangedPerformance,
      Display |-> ChangedDisplay,
      Audio |-> ChangedAudio,
      Gameplay |-> ChangedGameplay,
      Accessibility |-> ChangedAccessibility,
      Network |-> ChangedNetwork,
      Debug |-> ChangedDebug ]

\* ------------------------------------------------------------------------
\* Settings: the operations of the manager
\* ------------------------------------------------------------------------

\* the variables of the performance monitor, left alone by the settings
\* operations
monitorVars == <<telemetryVars, crashed, tickVars>>

\* the sinks receive the calls of an operation
CallSinks(calls) ==
    /\ sinkCalls' = Deliver(SinkState, calls)
    /\ SinkState' = SinksAfter(SinkState, sinkCalls')

\* a setter that re-applies every category
SetterApplies_Everything(cat) == ApplyAllOrder
\* the apply functions a setter of the category calls after its store
SetterApplies(cat) == <<cat>>

\* a setter: the store of the new settings, then the apply function of the
\* setter's category
StoreAndApply(cat, NewSettings) ==
    /\ Instance # nullptr
    /\ CurrentSettings' = NewSettings
    /\ CallSinks(ApplyInOrder(SetterApplies(cat), NewSettings, available))
    /\ applyTrace' = SetterApplies(cat)
    /\ ops' = ops + 1
    /\ UNCHANGED <<monitorVars, available, singletonVars, widgetVars, fileVars>>

\* a per-field setter called with the argument v: the clamped value is stored
\* in the category and the category is applied
SetField(cat, name, v, NewCategory) ==
    /\ ops < MaxSetterCalls
    /\ StoreAndApply(cat, [CurrentSettings EXCEPT ![cat] = NewCategory])
    /\ lastOp' = [name |-> name, cat |-> cat, arg |-> v]

\* the arguments offered to a per-field setter, by the type of its parameter
GraphicsInputs(name) == IntInputs

RenderingInputs(name) ==
    IF name \in RenderingBoolSetters THEN BOOLEAN
    ELSE IF name = "SetUpscalingMode" THEN 0..(Len(EUPMUpscalingMode) - 1)
    ELSE IntInputs

PerformanceInputs(name) ==
    IF name \in {"SetFrameRateLimit", "SetMinFrameRateForDynamicRes", "SetLODDistanceMultiplier"}
    THEN FloatInputs
    ELSE IF name = "SetProcessPriority" THEN IntInputs ELSE BOOLEAN

DisplayInputs(name) ==
    IF name = "SetResolution" THEN Resolutions
    ELSE IF name = "SetWindowMode" THEN 0..(Len(EWindowMode) - 1)
    ELSE IF name \in {"SetHDREnabled", "SetBorderlessWindow"} THEN BOOLEAN
    ELSE IF name = "SetMonitorIndex" THEN IntInputs
    ELSE FloatInputs

AudioInputs(name) ==
    IF name \in {"SetAudioQuality", "SetSurroundSoundMode"} THEN IntInputs
    ELSE IF name = "SetSpatialAudioEnabled" THEN BOOLEAN
    ELSE FloatInputs

GameplayInputs(name) ==
    IF name \in {"SetVibrationEnabled", "SetCrouchToggle", "SetSprintToggle", "SetAutoRunEnabled"}
    THEN BOOLEAN
    ELSE FloatInputs

AccessibilityInputs(name) ==
    IF name = "SetColorblindMode" THEN 0..(Len(EUPMColorblindMode) - 1)
    ELSE IF name \in {"SetUIScale", "SetTextSize"} THEN FloatInputs
    ELSE BOOLEAN

NetworkInputs(name) ==
    IF name \in {"SetMaxPingThreshold", "SetBandwidthLimit"} THEN IntInputs
    ELSE IF name = "SetNetworkSmoothing" THEN FloatInputs
    ELSE IF name = "SetPreferredRegion" THEN Regions
    ELSE BOOLEAN

DebugInputs(name) == BOOLEAN

\* the per-field setters of UUPMSettingsManager, category by category
SetGraphicsField ==
    \E name \in GraphicsSetters : \E v \in GraphicsInputs(name) :
        SetField("Graphics", name, v, GraphicsSetter(CurrentSettings.Graphics, name, v))

SetRenderingField ==
    \E name \in RenderingSetters : \E v \in RenderingInputs(name) :
        SetField("Rendering", name, v, RenderingSetter(CurrentSettings.Rendering, name, v))

SetPerformanceField ==
    \E name \in PerformanceSetters : \E v \in PerformanceInputs(name) :
        SetField("Performance", name, v, PerformanceSetter(CurrentSettings.Performance, name, v))

SetDisplayField ==
    \E name \in DisplaySetters : \E v \in DisplayInputs(name) :
        SetField("Display", name, v, DisplaySetter(CurrentSettings.Display, name, v))

SetAudioField ==
    \E name \in AudioSetters : \E v \in AudioInputs(name) :
        SetField("Audio", name, v, AudioSetter(CurrentSettings.Audio, name, v))

SetGameplayField ==
    \E name \in GameplaySetters : \E v \in GameplayInputs(name) :
        SetField("Gameplay", name, v, GameplaySetter(CurrentSettings.Gameplay, name, v))

SetAccessibilityField ==
    \E name \in AccessibilitySetters : \E v \in AccessibilityInputs(name) :
        SetField("Accessibility", name, v, AccessibilitySetter(CurrentSettings.Accessibility, name, v))

SetNetworkField ==
    \E name \in NetworkSetters : \E v \in NetworkInputs(name) :
        SetField("Network", name, v, NetworkSetter(CurrentSettings.Network, name, v))

SetDebugField ==
    \E name \in DebugSetters : \E v \in DebugInputs(name) :
        SetField("Debug", name, v, DebugSetter(CurrentSettings.Debug, name, v))

\* a per-field setter called at any time of a run, with the argument v
SetFieldLater(cat, name, v, NewCategory) ==
    /\ ops < MaxOps
    /\ StoreAndApply(cat, [CurrentSettings EXCEPT ![cat] = NewCategory])
    /\ lastOp' = [name |-> name, cat |-> cat, arg |-> v]

\* UUPMSettingsManager::SetLumenEnabled(bEnabled)
SetLumenEnabled ==
    \E bEnabled \in BOOLEAN :
        SetFieldLater("Rendering", "SetLumenEnabled", bEnabled,
                      RenderingSetter(CurrentSettings.Rendering, "SetLumenEnabled", bEnabled))

\* UUPMSettingsManager::SetUpscalingMode(Mode)
SetUpscalingMode ==
    \E Mode \in 0..(Len(EUPMUpscalingMode) - 1) :
        SetFieldLater("Rendering", "SetUpscalingMode", Mode,
                      RenderingSetter(CurrentSettings.Rendering, "SetUpscalingMode", Mode))

\* UUPMSettingsManager::SetVSyncEnabled(bEnabled)
SetVSyncEnabled ==
    \E bEnabled \in BOOLEAN :
        SetFieldLater("Performance", "SetVSyncEnabled", bEnabled,
                      PerformanceSetter(CurrentSettings.Performance, "SetVSyncEnabled", bEnabled))

\* UUPMSettingsManager::SetPhotosensitivityMode(bEnabled)
SetPhotosensitivityMode ==
    \E bEnabled \in BOOLEAN :
        SetFieldLater("Accessibility", "SetPhotosensitivityMode", bEnabled,
                      AccessibilitySetter(CurrentSettings.Accessibility,
                                          "SetPhotosensitivityMode", bEnabled))

\* UUPMSettingsManager::SetBenchmarkMode(bEnabled)
SetBenchmarkMode ==
    \E bEnabled \in BOOLEAN :
        SetFieldLater("Debug", "SetBenchmarkMode", bEnabled,
                      DebugSetter(CurrentSettings.Debug, "SetBenchmarkMode", bEnabled))

\* a bulk setter: Set<Category>Settings(const FUPM<Category>Settings& Settings)
SetCategorySettings(cat, Settings) ==
    /\ ops < MaxOps
    /\ StoreAndApply(cat, [CurrentSettings EXCEPT ![cat] = Settings])
    /\ lastOp' = [name |-> "SetCategorySettings", cat |-> cat]

SetGraphicsSettings == \E Settings \in {ChangedGraphics} : SetCategorySettings("Graphics", Settings)
SetRenderingSettings ==
    \E Settings \in {ChangedRendering} : SetCategorySettings("Rendering", Settings)
SetPerformanceSettings ==
    \E Settings \in {ChangedPerformance} : SetCategorySettings("Performance", Settings)
SetDisplaySettings == \E Settings \in {ChangedDisplay} : SetCategorySettings("Display", Settings)
SetAudioSettings == \E Settings \in {ChangedAudio} : SetCategorySettings("Audio", Settings)
SetGameplaySettings ==
    \E Settings \in {ChangedGameplay, OutOfRangeGameplay} : SetCategorySettings("Gameplay", Settings)
SetAccessibilitySettings ==
    \E Settings \in {ChangedAccessibility} : SetCategorySettings("Accessibility", Settings)
SetNetworkSettings == \E Settings \in {ChangedNetwork} : SetCategorySettings("Network", Settings)
SetDebugSettings == \E Settings \in {ChangedDebug} : SetCategorySettings("Debug", Settings)

\* UUPMSettingsManager::ApplyAllSettings()
ApplyAllSettings ==
    /\ Instance # nullptr
    /\ ops < MaxOps
    /\ CallSinks(ApplyInOrder(ApplyAllOrder, CurrentSettings, available))
    /\ applyTrace' = ApplyAllOrder
    /\ lastOp' = [name |-> "ApplyAllSettings", again |-> (lastOp.name = "ApplyAllSettings")]
    /\ ops' = ops + 1
    /\ UNCHANGED <<CurrentSettings, monitorVars, available, singletonVars, widgetVars, fileVars>>

\* the categories UUPMSettingsPanelWidget::ResetToDefaults hands to the bulk
\* setters, in the order of its calls
PanelResetCategories ==
    <<"Graphics", "Rendering", "Performance", "Display", "Audio", "Gameplay">>

\* the settings after the bulk setters of the categories in order were handed
\* the categories of From
RECURSIVE SetCategoriesFrom(_, _, _)
SetCategoriesFrom(order, s, From) ==
    IF order = <<>> THEN s
    ELSE SetCategoriesFrom(Tail(order), [s EXCEPT ![Head(order)] = From[Head(order)]], From)

\* UUPMSettingsPanelWidget::ResetToDefaults() of a panel that holds the
\* manager: a default-constructed FUPMCompleteSettings is handed, category by
\* category, to six bulk setters, each of which stores and applies its
\* category (an apply function reads its own category only)
ResetToDefaults ==
    /\ Instance # nullptr
    /\ ops < MaxOps
    /\ CurrentSettings' = SetCategoriesFrom(PanelResetCategories, CurrentSettings, DefaultSettings)
    /\ CallSinks(ApplyInOrder(PanelResetCategories, CurrentSettings', available))
    /\ applyTrace' = PanelResetCategories
    /\ lastOp' = [name |-> "ResetToDefaults"]
    /\ ops' = ops + 1
    /\ UNCHANGED <<monitorVars, available, singletonVars, widgetVars, fileVars>>

\* the settings file: absent, or present with a text that is a JSON document
\* or is not
NoFile == [exists |-> FALSE, parsable |-> FALSE, doc |-> <<>>]
JsonFile(doc) == [exists |-> TRUE, parsable |-> TRUE, doc |-> doc]
GarbageFile == [exists |-> TRUE, parsable |-> FALSE, doc |-> <<>>]

\* UUPMSettingsManager::SaveSettings(): its return value
SaveResult(DirectoryExists, serializeOk, createOk, writeOk) ==
    IF ~serializeOk THEN FALSE
    ELSE IF ~DirectoryExists /\ ~createOk THEN FALSE
    ELSE writeOk

\* UUPMSettingsManager::SaveSettings(): the line it writes to the log
SaveLog(DirectoryExists, serializeOk, createOk, writeOk) ==
    IF ~serializeOk THEN "UPM: Failed to serialize settings to JSON"
    ELSE IF ~DirectoryExists /\ ~createOk THEN "UPM: Failed to create directory"
    ELSE IF ~writeOk THEN "UPM: Failed to write settings to file"
    ELSE "UPM: Settings saved successfully"

\* UUPMSettingsManager::SaveSettings(): CreateDirectoryTree is called
SaveCreatesDirectory_Always(DirectoryExists, serializeOk) == serializeOk
SaveCreatesDirectory(DirectoryExists, serializeOk) == serializeOk /\ ~DirectoryExists

\* UUPMSettingsManager::SaveSettings(); the engine decides whether the
\* serializer, CreateDirectoryTree and SaveStringToFile succeed
SaveSettings ==
    /\ Instance # nullptr
    /\ ops < MaxOps
    /\ \E serializeOk \in BOOLEAN, createOk \in BOOLEAN, writeOk \in BOOLEAN :
         LET result == SaveResult(dirExists, serializeOk, createOk, writeOk)
         IN  /\ dirExists' = (dirExists \/ (SaveCreatesDirectory(dirExists, serializeOk) /\ createOk))
             /\ file' = IF result THEN JsonFile(SettingsToJson(CurrentSettings)) ELSE file
             /\ savedFrom' = IF result THEN [valid |-> TRUE, settings |-> CurrentSettings]
                             ELSE savedFrom
             /\ lastOp' = [name |-> "SaveSettings", result |-> result,
                           log |-> SaveLog(dirExists, serializeOk, createOk, writeOk),
                           hadDirectory |-> dirExists,
                           createCalled |-> SaveCreatesDirectory(dirExists, serializeOk),
                           serializeOk |-> serializeOk,
                           createOk |-> createOk,
                           writeOk |-> writeOk]
    /\ sinkCalls' = <<>>
    /\ applyTrace' = <<>>
    /\ ops' = ops + 1
    /\ UNCHANGED <<CurrentSettings, SinkState, monitorVars, available, singletonVars, widgetVars>>

\* LoadSettings that falls back to the defaults when there is no file
LoadOutcome_DefaultsWhenMissing(s, f, readOk) ==
    IF ~f.exists THEN [result |-> FALSE, settings |-> DefaultSettings]
    ELSE IF ~readOk THEN [result |-> FALSE, settings |-> s]
    ELSE IF ~f.parsable THEN [result |-> FALSE, settings |-> s]
    ELSE [result |-> TRUE, settings |-> JsonToSettings(s, f.doc)]
\* UUPMSettingsManager::LoadSettings(): its return value and the settings it
\* leaves in CurrentSettings
LoadOutcome(s, f, readOk) ==
    IF ~f.exists THEN [result |-> FALSE, settings |-> s]
    ELSE IF ~readOk THEN [result |-> FALSE, settings |-> s]
    ELSE IF ~f.parsable THEN [result |-> FALSE, settings |-> s]
    ELSE [result |-> TRUE, settings |-> JsonToSettings(s, f.doc)]

\* UUPMSettingsManager::LoadSettings(); the engine decides whether
\* LoadFileToString succeeds
LoadSettings ==
    /\ Instance # nullptr
    /\ ops < MaxOps
    /\ \E readOk \in BOOLEAN :
         LET outcome == LoadOutcome(CurrentSettings, file, readOk)
         IN  /\ CurrentSettings' = outcome.settings
             /\ lastOp' = [name |-> "LoadSettings", result |-> outcome.result,
                           changed |-> (outcome.settings # CurrentSettings)]
    /\ sinkCalls' = <<>>
    /\ applyTrace' = <<>>
    /\ ops' = ops + 1
    /\ UNCHANGED <<SinkState, monitorVars, available, singletonVars, widgetVars, fileVars>>

\* UUPMSettingsManager::Initialize() when applyAll is skipped after a failed
\* load
InitializeOutcome_ApplyAfterGoodLoad(s, f, readOk, env) ==
    LET loaded == LoadOutcome(s, f, readOk)
    IN  [result |-> loaded.result,
         settings |-> loaded.settings,
         steps |-> IF loaded.result THEN <<"LoadSettings", "ApplyAllSettings">>
                   ELSE <<"LoadSettings">>,
         applied |-> IF loaded.result THEN ApplyAllOrder ELSE <<>>,
         calls |-> IF loaded.result THEN ApplyInOrder(ApplyAllOrder, loaded.settings, env)
                   ELSE <<>>]
\* UUPMSettingsManager::Initialize(): LoadSettings(), its result dropped, then
\* ApplyAllSettings() on what the load left in CurrentSettings
InitializeOutcome(s, f, readOk, env) ==
    LET loaded == LoadOutcome(s, f, readOk)
    IN  [result |-> loaded.result,
         settings |-> loaded.settings,
         steps |-> <<"LoadSettings", "ApplyAllSettings">>,
         applied |-> ApplyAllOrder,
         calls |-> ApplyInOrder(ApplyAllOrder, loaded.settings, env)]

\* UUPMSettingsManager::Initialize() called by the application
Initialize ==
    /\ Instance # nullptr
    /\ ops < MaxOps
    /\ \E readOk \in BOOLEAN :
         LET init == InitializeOutcome(CurrentSettings, file, readOk, available)
         IN  /\ CurrentSettings' = init.settings
             /\ CallSinks(init.calls)
             /\ applyTrace' = init.applied
             /\ lastOp' = [name |-> "Initialize", result |-> init.result,
                           changed |-> (init.settings # CurrentSettings),
                           steps |-> init.steps]
    /\ ops' = ops + 1
    /\ UNCHANGED <<monitorVars, available, singletonVars, widgetVars, fileVars>>

\* the WorldContextObject handed to GetInstance: a null pointer, an object
\* whose GetWorld() is null, an object in a world
WorldContextObjects == {"nullptr", "NoWorld", "InWorld"}

\* WorldContextObject->GetWorld() is not null
GetWorld(WorldContextObject) == WorldContextObject = "InWorld"

\* GetInstance without the test of the static Instance
GetInstanceOutcome_AlwaysNew(Inst, made, WorldContextObject, newOk) ==
    IF WorldContextObject = "nullptr" THEN [returned |-> nullptr, constructs |-> FALSE]
    ELSE IF ~GetWorld(WorldContextObject) THEN [returned |-> nullptr, constructs |-> FALSE]
    ELSE IF newOk THEN [returned |-> made + 1, constructs |-> TRUE]
    ELSE [returned |-> nullptr, constructs |-> FALSE]
\* UUPMSettingsManager::GetInstance(): what it returns and whether it
\* constructs a manager; a new manager is numbered by its order of construction
GetInstanceOutcome(Inst, made, WorldContextObject, newOk) ==
    IF Inst # nullptr THEN [returned |-> Inst, constructs |-> FALSE]
    ELSE IF WorldContextObject = "nullptr" THEN [returned |-> nullptr, constructs |-> FALSE]
    ELSE IF ~GetWorld(WorldContextObject) THEN [returned |-> nullptr, constructs |-> FALSE]
    ELSE IF newOk THEN [returned |-> made + 1, constructs |-> TRUE]
    ELSE [returned |-> nullptr, constructs |-> FALSE]

\* UUPMSettingsManager::GetInstance(WorldContextObject): the first call with a
\* world constructs the manager with the default settings and runs
\* Initialize() on it; the code provides for NewObject returning nullptr
GetInstance ==
    /\ ~crashed
    /\ ops < MaxOps
    /\ \E WorldContextObject \in WorldContextObjects, newOk \in BOOLEAN, readOk \in BOOLEAN :
         LET o == GetInstanceOutcome(Instance, constructions, WorldContextObject, newOk)
             init == InitializeOutcome(DefaultSettings, file, readOk, available)
         IN  IF o.constructs
             THEN /\ Instance' = o.returned
                  /\ constructions' = constructions + 1
                  /\ CurrentSettings' = init.settings
                  /\ CallSinks(init.calls)
                  /\ applyTrace' = init.applied
                  /\ FPSHistory' = <<>>
                  /\ FPSHistoryTimeAccumulator' = 0
                  /\ PerformanceMetrics' = DefaultPerformanceMetrics
                  /\ ticks' = 0 /\ resets' = 0 /\ dtChanges' = 0 /\ lastDt' = 0
                  /\ lastOp' = [name |-> "GetInstance", result |-> init.result,
                                changed |-> (init.settings # DefaultSettings),
                                context |-> WorldContextObject,
                                had |-> Instance,
                                returned |-> o.returned,
                                steps |-> init.steps]
             ELSE /\ Instance' = Instance
                  /\ constructions' = constructions
                  /\ sinkCalls' = <<>>
                  /\ applyTrace' = <<>>
                  /\ lastOp' = [name |-> "GetInstance", result |-> FALSE,
                                changed |-> FALSE,
                                context |-> WorldContextObject,
                                had |-> Instance,
                                returned |-> o.returned,
                                steps |-> <<>>]
                  /\ UNCHANGED <<CurrentSettings, SinkState, telemetryVars, tickVars>>
    /\ ops' = ops + 1
    /\ UNCHANGED <<crashed, available, widgetVars, fileVars>>

\* the process ends and a new one starts: the static Instance is a null
\* pointer again, no sink has been handed a value, and the next manager will
\* be constructed anew
ExitProcess ==
    /\ Instance # nullptr
    /\ ops < MaxOps
    /\ Instance' = nullptr
    /\ constructions' = 0
    /\ CurrentSettings' = DefaultSettings
    /\ SinkState' = NoSinkState
    /\ sinkCalls' = <<>>
    /\ applyTrace' = <<>>
    /\ FPSHistory' = <<>>
    /\ FPSHistoryTimeAccumulator' = 0
    /\ PerformanceMetrics' = DefaultPerformanceMetrics
    /\ crashed' = FALSE
    /\ ticks' = 0 /\ resets' = 0 /\ dtChanges' = 0 /\ lastDt' = 0
    /\ lastOp' = [name |-> "ExitProcess"]
    /\ ops' = ops + 1
    /\ overlay' = DefaultOverlay
    /\ UNCHANGED <<available, fileVars>>

\* UUPMPerformanceOverlayWidget::NativeConstruct() in a process that holds
\* its manager: GetInstance(this) returns it
NativeConstruct ==
    /\ Instance # nullptr
    /\ overlay' = [overlay EXCEPT !.SettingsManager =
                      GetInstanceOutcome(Instance, constructions, "InWorld", TRUE).returned]
    /\ lastOp' = [name |-> "NativeConstruct"]
    /\ UNCHANGED <<telemetryVars, crashed, tickVars, CurrentSettings, sinkVars, available,
                   singletonVars, fileVars, ops>>

\* UUPMPerformanceOverlayWidget::NativeTick(MyGeometry, InDeltaTime)
NativeTick ==
    /\ ~crashed
    /\ ticks < MaxOverlayTicks
    /\ \E InDeltaTime \in OverlayDeltaTimes, UsedPhysical \in UsedPhysicalReadings,
          UsedVRAM \in FrameVRAMReadings :
         IF overlay.SettingsManager = nullptr \/ ~overlay.bIsVisible
         THEN /\ lastOp' = [name |-> "NativeTick", InDeltaTime |-> InDeltaTime,
                            forwarded |-> <<>>, elapsed |-> overlay.UpdateTimer,
                            fired |-> <<>>]
              /\ UNCHANGED <<telemetryVars, crashed, tickVars, overlay>>
         ELSE /\ UpdateBody(InDeltaTime, UsedPhysical, TRUE, UsedVRAM)
              /\ ticks' = IF InDeltaTime > 0 THEN ticks + 1 ELSE ticks
              /\ dtChanges' = IF InDeltaTime > 0 /\ lastDt # 0 /\ InDeltaTime # lastDt
                              THEN dtChanges + 1 ELSE dtChanges
              /\ lastDt' = IF InDeltaTime > 0 THEN InDeltaTime ELSE lastDt
              /\ resets' = resets
              /\ LET Timer == overlay.UpdateTimer + InDeltaTime
                     Fires == ~crashed' /\ Timer >= overlay.UpdateInterval
                 IN  /\ overlay' =
                          [overlay EXCEPT !.UpdateTimer =
                              IF crashed' THEN @
                              ELSE IF Fires THEN TimerAfterFire(Timer, overlay.UpdateInterval)
                              ELSE Timer]
                     /\ lastOp' = [name |-> "NativeTick", InDeltaTime |-> InDeltaTime,
                                   forwarded |-> <<InDeltaTime>>, elapsed |-> Timer,
                                   fired |-> IF Fires THEN <<PerformanceMetrics'>> ELSE <<>>]
    /\ UNCHANGED <<CurrentSettings, sinkVars, available, singletonVars, fileVars, ops>>

\* bIsVisible = bVisible; SetVisibility(bVisible ? Visible : Collapsed)
OverlayVisible(o, bVisible) ==
    [o EXCEPT !.bIsVisible = bVisible,
              !.Visibility = IF bVisible THEN "Visible" ELSE "Collapsed"]

\* UUPMPerformanceOverlayWidget::SetOverlayVisible(bVisible)
SetOverlayVisible ==
    /\ \E bVisible \in BOOLEAN :
         /\ overlay' = OverlayVisible(overlay, bVisible)
         /\ lastOp' = [name |-> "SetOverlayVisible", bVisible |-> bVisible]
    /\ UNCHANGED <<telemetryVars, crashed, tickVars, CurrentSettings, sinkVars, available,
                   singletonVars, fileVars, ops>>

\* UUPMPerformanceOverlayWidget::ToggleOverlay()
ToggleOverlay ==
    /\ overlay' = OverlayVisible(overlay, ~overlay.bIsVisible)
    /\ lastOp' = [name |-> "ToggleOverlay"]
    /\ UNCHANGED <<telemetryVars, crashed, tickVars, CurrentSettings, sinkVars, available,
                   singletonVars, fileVars, ops>>

\* the user or another program deletes the settings file
DeleteFile ==
    /\ ops < MaxOps
    /\ file.exists
    /\ file' = NoFile
    /\ savedFrom' = [valid |-> FALSE, settings |-> DefaultSettings]
    /\ lastOp' = [name |-> "DeleteFile"]
    /\ sinkCalls' = <<>>
    /\ applyTrace' = <<>>
    /\ ops' = ops + 1
    /\ UNCHANGED <<CurrentSettings, SinkState, monitorVars, available, singletonVars, widgetVars, dirExists>>

\* the settings file is overwritten with text that is not JSON
CorruptFile ==
    /\ ops < MaxOps
    /\ dirExists
    /\ ~(file.exists /\ ~file.parsable)
    /\ file' = GarbageFile
    /\ savedFrom' = [valid |-> FALSE, settings |-> DefaultSettings]
    /\ lastOp' = [name |-> "CorruptFile"]
    /\ sinkCalls' = <<>>
    /\ applyTrace' = <<>>
    /\ ops' = ops + 1
    /\ UNCHANGED <<CurrentSettings, SinkState, monitorVars, available, singletonVars, widgetVars, dirExists>>

\* the process holds its manager: GetInstance has constructed it
InitManager ==
    /\ Instance = 1
    /\ constructions = 1

\* a process that has not called GetInstance yet
InitNoManager ==
    /\ Instance = nullptr
    /\ constructions = 0

\* the settings of a newly constructed manager, in an engine with every sink
\* and no settings file
InitSettings ==
    /\ CurrentSettings = DefaultSettings
    /\ SinkState = NoSinkState
    /\ sinkCalls = <<>>
    /\ applyTrace = <<>>

InitNoFile ==
    /\ file = NoFile
    /\ dirExists = FALSE
    /\ savedFrom = [valid |-> FALSE, settings |-> DefaultSettings]

\* the documents found in the settings file of a new installation: written
\* from ChangedSettings, cut down to one category and to some of its keys, or
\* carrying keys the manager does not know
FullDocument == SettingsToJson(ChangedSettings)

DocumentShapes == {"all", "category", "empty", "without", "only", "unknown", "none", "edited"}

\* a settings file edited by hand: values outside the ranges of the setters
HandEditedDocument ==
    [ Graphics |-> [ShadowQuality |-> JsonNumber(Int32AsNumber(7))],
      Audio |-> [MasterVolume |-> JsonNumber(FloatAsNumber(1500))],
      Gameplay |-> [FOV |-> JsonNumber(FloatAsNumber(500 * FloatScale))] ]

UnknownValue == JsonNumber(7 * FloatScale)

Document(shape, c, k) ==
    LET Keys == DOMAIN FullDocument[c]
        Object(K) == [key \in K |-> IF key \in Keys THEN FullDocument[c][key] ELSE UnknownValue]
    IN  CASE shape = "all" -> FullDocument
          [] shape = "category" -> [cc \in {c} |-> Object(Keys)]
          [] shape = "empty" -> [cc \in {c} |-> Object({})]
          [] shape = "without" -> [cc \in {c} |-> Object(Keys \ {k})]
          [] shape = "only" -> [cc \in {c} |-> Object({k})]
          [] shape = "unknown" ->
                 [cc \in {c, "Unknown"} |->
                     IF cc = c THEN Object({k, "Unknown"}) ELSE Object({"Unknown"})]
          [] shape = "none" -> Object({})
          [] shape = "edited" -> HandEditedDocument

\* ------------------------------------------------------------------------
\* Specifications
\* ------------------------------------------------------------------------

Init ==
    /\ InitManager
    /\ InitTelemetry
    /\ InitSettings
    /\ InitNoFile
    /\ available = FullEnvironment

Next == UpdatePerformanceMetrics \/ ResetPerformanceStats

\* the manager ticked and reset by its callers
Spec == Init /\ [][Next]_vars

NextSteady == SteadyTick \/ StalledTick \/ ResetPerformanceStats

\* the manager ticked at a steady 60 frames per second, with stalled ticks and
\* resets in between
SpecSteady == Init /\ [][NextSteady]_vars

NextSlow == SlowTick \/ StalledTick \/ ResetPerformanceStats

\* the manager ticked at a slow 10 frames per second, with stalled ticks and
\* resets in between
SpecSlow == Init /\ [][NextSlow]_vars

NextSetters ==
    \/ SetGraphicsField
    \/ SetRenderingField
    \/ SetPerformanceField
    \/ SetDisplayField
    \/ SetAudioField
    \/ SetGameplayField
    \/ SetAccessibilityField
    \/ SetNetworkField
    \/ SetDebugField

\* the per-field setters called on a new manager
SpecSetters == Init /\ [][NextSetters]_vars

NextBulkSetters ==
    \/ SetGraphicsSettings
    \/ SetRenderingSettings
    \/ SetPerformanceSettings
    \/ SetDisplaySettings
    \/ SetAudioSettings
    \/ SetGameplaySettings
    \/ SetAccessibilitySettings
    \/ SetNetworkSettings
    \/ SetDebugSettings

NextSetAndApply == NextSetters \/ NextBulkSetters

\* a per-field setter and bulk setters called on a new manager
SpecSetAndApply == Init /\ [][NextSetAndApply]_vars

InitApply ==
    /\ InitManager
    /\ InitTelemetry
    /\ InitSettings
    /\ InitNoFile
    /\ available \in Environments

NextApply == NextBulkSetters \/ ApplyAllSettings

\* bulk setters and ApplyAllSettings, in engines with and without the sinks
SpecApply == InitApply /\ [][NextApply]_vars

InitPersist ==
    /\ InitManager
    /\ InitTelemetry
    /\ InitSettings
    /\ available = FullEnvironment
    /\ savedFrom = [valid |-> FALSE, settings |-> DefaultSettings]
    /\ \/ file = NoFile /\ dirExists \in BOOLEAN
       \/ file = GarbageFile /\ dirExists = TRUE

NextPersist ==
    \/ NextBulkSetters
    \/ SaveSettings
    \/ LoadSettings
    \/ GetInstance
    \/ ExitProcess
    \/ DeleteFile
    \/ CorruptFile

\* bulk setters, saving, loading and restarting, with a file system that fails
\* and a file that is deleted or damaged
SpecPersist == InitPersist /\ [][NextPersist]_vars

InitLoadFresh ==
    /\ InitNoManager
    /\ InitTelemetry
    /\ InitSettings
    /\ available = FullEnvironment
    /\ dirExists = TRUE
    /\ savedFrom = [valid |-> FALSE, settings |-> DefaultSettings]
    /\ \E shape \in DocumentShapes : \E c \in DOMAIN FullDocument :
         \E k \in DOMAIN FullDocument[c] : file = JsonFile(Document(shape, c, k))

NextLoadFresh == GetInstance \/ LoadSettings

\* a new manager started on a settings file written elsewhere
SpecLoadFresh == InitLoadFresh /\ [][NextLoadFresh]_vars

InitSingleton ==
    /\ InitNoManager
    /\ InitTelemetry
    /\ InitSettings
    /\ available = FullEnvironment
    /\ savedFrom = [valid |-> FALSE, settings |-> DefaultSettings]
    /\ \/ file = NoFile /\ dirExists = FALSE
       \/ file = GarbageFile /\ dirExists = TRUE
       \/ file = JsonFile(FullDocument) /\ dirExists = TRUE

NextSingleton ==
    \/ GetInstance
    \/ Initialize
    \/ ExitProcess
    \/ NextBulkSetters

\* a process from its start: GetInstance with every kind of context, the
\* application's own Initialize, bulk setters, and the end of the process
SpecSingleton == InitSingleton /\ [][NextSingleton]_vars

\* the manager GetInstance has constructed in a process whose settings file
\* was edited by hand: Initialize() has loaded the file and applied everything
InitHandEdited ==
    /\ InitManager
    /\ InitTelemetry
    /\ available = FullEnvironment
    /\ file = JsonFile(HandEditedDocument)
    /\ dirExists = TRUE
    /\ savedFrom = [valid |-> FALSE, settings |-> DefaultSettings]
    /\ LET init == InitializeOutcome(DefaultSettings, JsonFile(HandEditedDocument), TRUE,
                                     FullEnvironment)
       IN  /\ CurrentSettings = init.settings
           /\ sinkCalls = init.calls
           /\ SinkState = SinksAfter(NoSinkState, init.calls)
           /\ applyTrace = init.applied

NextHandEdited ==
    \/ SetAudioField
    \/ SetGameplayField
    \/ SetGameplaySettings
    \/ ApplyAllSettings
    \/ SaveSettings
    \/ LoadSettings
    \/ (ticks < MaxFrames /\ UpdatePerformanceMetrics)

\* the life of a manager started on a hand-edited settings file
SpecHandEdited == InitHandEdited /\ [][NextHandEdited]_vars

\* the manager GetInstance has constructed in a process without a settings
\* file: the load has failed and Initialize() has applied the defaults
InitStarted ==
    /\ InitManager
    /\ InitTelemetry
    /\ InitNoFile
    /\ available = FullEnvironment
    /\ LET init == InitializeOutcome(DefaultSettings, NoFile, TRUE, FullEnvironment)
       IN  /\ CurrentSettings = init.settings
           /\ sinkCalls = init.calls
           /\ SinkState = SinksAfter(NoSinkState, init.calls)
           /\ applyTrace = init.applied

NextModes ==
    \/ SetLumenEnabled
    \/ SetUpscalingMode
    \/ SetVSyncEnabled
    \/ SetPhotosensitivityMode
    \/ SetBenchmarkMode
    \/ ApplyAllSettings

\* setters of fields whose sinks are shared between categories, called one
\* after the other on a started manager
SpecModes == InitStarted /\ [][NextModes]_vars

NextFrame ==
    \/ NextSetters
    \/ (ops < MaxFrameOps /\ ApplyAllSettings)
    \/ (ops < MaxFrameOps /\ SaveSettings)
    \/ (ticks < MaxFrames /\ UpdatePerformanceMetrics)
    \/ ResetPerformanceStats

\* the frame loop of a game: ticks and resets of the monitor, a per-field
\* setter from the settings menu, ApplyAllSettings and SaveSettings
SpecFrame == Init /\ [][NextFrame]_vars

NextOverlay == NativeConstruct \/ NativeTick \/ SetOverlayVisible \/ ToggleOverlay

\* the overlay widget of a running game: constructed, ticked by the engine
\* every frame, shown and hidden
SpecOverlay == Init /\ [][NextOverlay]_vars

NextPanel == NextBulkSetters \/ ResetToDefaults

\* the settings panel on a started manager: bulk setters and the panel's
\* reset to the defaults
SpecPanel == InitStarted /\ [][NextPanel]_vars

\* ------------------------------------------------------------------------
\* Telemetry properties
\* ------------------------------------------------------------------------

\* C1: after any sequence of UpdatePerformanceMetrics calls with positive
\* DeltaTime, interleaved with resets, the FPS history never holds more than
\* 120 samples.
C1_HistoryWithinCapacity == Len(FPSHistory) <= 120

\* C8: UpdatePerformanceMetrics(DeltaTime) with DeltaTime <= 0 changes nothing:
\* the FPS history, the time accumulator and every field of the performance
\* snapshot are the same after the call as before.
C8_StalledTickChangesNothing ==
    [][(lastOp'.name = "UpdatePerformanceMetrics" /\ lastOp'.DeltaTime <= 0)
         => (/\ FPSHistory' = FPSHistory
             /\ FPSHistoryTimeAccumulator' = FPSHistoryTimeAccumulator
             /\ PerformanceMetrics' = PerformanceMetrics)]_vars

\* a stalled tick arrived at a manager whose history is full
C8_Witness ==
    /\ lastOp.name = "UpdatePerformanceMetrics"
    /\ lastOp.DeltaTime <= 0
    /\ Len(FPSHistory) = 120
    /\ PerformanceMetrics.FPS_Current > 0

\* C9: immediately after ResetPerformanceStats, from any reachable state, the
\* FPS history is empty, the time accumulator is 0, FPS_Min is the sentinel
\* 999, FPS_Max is 0 and FPS_Average is 0.
C9_ResetState ==
    lastOp.name = "ResetPerformanceStats"
      => /\ FPSHistory = <<>>
         /\ FPSHistoryTimeAccumulator = 0
         /\ PerformanceMetrics.FPS_Min = 999 * FloatScale
         /\ PerformanceMetrics.FPS_Max = 0
         /\ PerformanceMetrics.FPS_Average = 0

\* a reset of a manager that had been ticked
C9_Witness ==
    /\ lastOp.name = "ResetPerformanceStats"
    /\ PerformanceMetrics.FPS_Current > 0
    /\ PerformanceMetrics.CPUFrameTime > 0

C2_SettersClamp ==
    LET Nearest(v, lo, hi) == IF v < lo THEN lo ELSE IF v > hi THEN hi ELSE v
        Range(setter, cat, field, lo, hi) ==
            [setter |-> setter, cat |-> cat, field |-> field, lo |-> lo, hi |-> hi]
        Documented ==
            { Range("SetAntiAliasingQuality", "Graphics", "AntiAliasingQuality", 0, 4),
              Range("SetShadowQuality", "Graphics", "ShadowQuality", 0, 4),
              Range("SetViewDistanceQuality", "Graphics", "ViewDistanceQuality", 0, 4),
              Range("SetPostProcessQuality", "Graphics", "PostProcessQuality", 0, 4),
              Range("SetTextureQuality", "Graphics", "TextureQuality", 0, 4),
              Range("SetMasterVolume", "Audio", "MasterVolume", 0, 1000),
              Range("SetSFXVolume", "Audio", "SFXVolume", 0, 1000),
              Range("SetMusicVolume", "Audio", "MusicVolume", 0, 1000),
              Range("SetVoiceDialogVolume", "Audio", "VoiceDialogVolume", 0, 1000),
              Range("SetAmbientVolume", "Audio", "AmbientVolume", 0, 1000),
              Range("SetUISoundVolume", "Audio", "UISoundVolume", 0, 1000),
              Range("SetVoiceChatVolume", "Audio", "VoiceChatVolume", 0, 1000),
              Range("SetBrightness", "Display", "Brightness", 0, 2000),
              Range("SetHDRMaxNits", "Display", "HDRMaxNits", 1000000, 10000000),
              Range("SetFOV", "Gameplay", "FOV", 60000, 120000),
              Range("SetMouseSensitivity", "Gameplay", "MouseSensitivity", 100, 5000),
              Range("SetUIScale", "Accessibility", "UIScale", 500, 2000) }
    IN  \A d \in Documented :
            lastOp.name = d.setter =>
                CurrentSettings[d.cat][d.field] = Nearest(lastOp.arg, d.lo, d.hi)

\* SetFOV(500) has stored 120
C2_Witness ==
    /\ lastOp.name = "SetFOV"
    /\ lastOp.arg = 500 * FloatScale
    /\ CurrentSettings.Gameplay.FOV = 120 * FloatScale

\* C3: when the file holds the document written by SaveSettings from settings
\* x, a successful load, into the running manager's store or into the default
\* store of a new manager, leaves exactly x in all nine categories.
C3_RoundTrip ==
    (/\ lastOp.name \in {"LoadSettings", "GetInstance"}
     /\ lastOp.result
     /\ savedFrom.valid
     /\ file.doc = SettingsToJson(savedFrom.settings))
        => CurrentSettings = savedFrom.settings

\* settings changed after the save are brought back to the saved ones by a load
C3_Witness ==
    /\ lastOp.name = "LoadSettings"
    /\ lastOp.result
    /\ lastOp.changed
    /\ savedFrom.valid
    /\ savedFrom.settings # DefaultSettings
    /\ CurrentSettings = savedFrom.settings

\* C4: after a new manager has loaded a document, every field whose key the
\* document holds has the document's value, and every other field, also in a
\* category the document holds, has its default.
C4_MergeWithDefaults ==
    (lastOp.name = "GetInstance" /\ lastOp.result) =>
        LET got == SettingsToJson(CurrentSettings)
            defaults == SettingsToJson(DefaultSettings)
        IN  \A c \in DOMAIN defaults : \A k \in DOMAIN defaults[c] :
                got[c][k] = IF c \in DOMAIN file.doc /\ k \in DOMAIN file.doc[c]
                            THEN file.doc[c][k]
                            ELSE defaults[c][k]

\* C5: a LoadSettings that returns false, for a file that is missing,
\* unreadable or not JSON, leaves CurrentSettings as it was.
C5_FailedLoadKeepsSettings ==
    [][(lastOp'.name = "LoadSettings" /\ ~lastOp'.result)
           => CurrentSettings' = CurrentSettings]_vars

\* a load of a damaged file has failed in a manager whose settings are not the
\* defaults
C5_Witness ==
    /\ lastOp.name = "LoadSettings"
    /\ ~lastOp.result
    /\ file.exists /\ ~file.parsable
    /\ CurrentSettings # DefaultSettings

\* C6: an ApplyAllSettings that directly follows an ApplyAllSettings issues
\* the same sink calls with the same arguments and leaves the sinks as they
\* were.
C6_ApplyAllIdempotent ==
    [][(lastOp.name = "ApplyAllSettings" /\ lastOp'.name = "ApplyAllSettings" /\ ops' = ops + 1)
           => (sinkCalls' = sinkCalls /\ SinkState' = SinkState)]_vars

\* ApplyAllSettings has run twice in a row on changed settings and has called
\* the sinks
C6_Witness ==
    /\ lastOp.name = "ApplyAllSettings"
    /\ lastOp.again
    /\ CurrentSettings # DefaultSettings
    /\ Len(sinkCalls) > 40

\* C7: ApplyAllSettings runs the nine apply functions once each, in the order
\* Graphics, Rendering, Performance, Display, Audio, Gameplay, Accessibility,
\* Network, Debug, and no sink call of a later category precedes one of an
\* earlier category.
C7_ApplyAllOrder ==
    LET Order == <<"Graphics", "Rendering", "Performance", "Display", "Audio",
                   "Gameplay", "Accessibility", "Network", "Debug">>
        Position(c) == CHOOSE n \in 1..Len(Order) : Order[n] = c
    IN  lastOp.name = "ApplyAllSettings" =>
            /\ applyTrace = Order
            /\ \A i, j \in 1..Len(sinkCalls) :
                   i < j => Position(sinkCalls[i].cat) <= Position(sinkCalls[j].cat)

\* ApplyAllSettings has run in an engine with every sink, and every category
\* that has a sink has called it
C7_Witness ==
    /\ lastOp.name = "ApplyAllSettings"
    /\ available = FullEnvironment
    /\ {sinkCalls[i].cat : i \in 1..Len(sinkCalls)} =
           {"Graphics", "Rendering", "Performance", "Display", "Audio",
            "Accessibility", "Network", "Debug"}

\* C11: while no instance exists, GetInstance with a null context or with a
\* context that resolves no world returns no instance and constructs nothing;
\* once an instance exists every GetInstance call, whatever its context,
\* returns that instance; at most one manager is constructed in a process.
C11_SingleInstance ==
    /\ constructions <= 1
    /\ (Instance = nullptr) <=> (constructions = 0)
    /\ lastOp.name = "GetInstance" =>
         /\ (lastOp.had = nullptr /\ lastOp.context \in {"nullptr", "NoWorld"})
              => (lastOp.returned = nullptr /\ Instance = nullptr /\ constructions = 0)
         /\ lastOp.had # nullptr
              => (lastOp.returned = lastOp.had /\ Instance = lastOp.had)

\* a GetInstance call with a null context on a process that holds its manager
C11_Witness ==
    /\ lastOp.name = "GetInstance"
    /\ lastOp.had # nullptr
    /\ lastOp.context = "nullptr"
    /\ lastOp.returned = Instance
    /\ CurrentSettings # DefaultSettings

\* C12: Initialize runs LoadSettings and then ApplyAllSettings, the latter on
\* what the load left in CurrentSettings and whether or not the load succeeded;
\* the GetInstance call that constructs the manager runs this sequence once,
\* and a GetInstance call that constructs nothing loads and applies nothing.
C12_InitializeOnce ==
    [][LET Loaded(s) == {LoadOutcome(s, file, readOk).settings : readOk \in BOOLEAN}
           Sequence(s) ==
               /\ lastOp'.steps = <<"LoadSettings", "ApplyAllSettings">>
               /\ CurrentSettings' \in Loaded(s)
               /\ applyTrace' = ApplyAllOrder
               /\ sinkCalls' = ApplyInOrder(ApplyAllOrder, CurrentSettings', available)
       IN  /\ lastOp'.name = "Initialize" => Sequence(CurrentSettings)
           /\ lastOp'.name = "GetInstance" =>
                IF Instance = nullptr /\ Instance' # nullptr
                THEN Sequence(DefaultSettings)
                ELSE /\ lastOp'.steps = <<>>
                     /\ sinkCalls' = <<>>
                     /\ applyTrace' = <<>>
                     /\ CurrentSettings' = CurrentSettings
                     /\ SinkState' = SinkState]_vars

\* the constructing GetInstance call whose load failed: everything was applied
C12_Witness ==
    /\ lastOp.name = "GetInstance"
    /\ lastOp.had = nullptr
    /\ lastOp.returned # nullptr
    /\ ~lastOp.result
    /\ file.exists
    /\ Len(sinkCalls) > 40


\* C13: SaveSettings returns true exactly when the serialization, the
\* directory (there already, or created, and created only when missing) and the
\* write of the file all succeed; when the directory was missing and its
\* creation and the write succeed, the directory exists afterwards, the file
\* holds the encoding of the current settings and the call returned true.
C13_SaveResult ==
    lastOp.name = "SaveSettings" =>
        /\ lastOp.result <=> /\ lastOp.serializeOk
                             /\ (lastOp.hadDirectory \/ lastOp.createOk)
                             /\ lastOp.writeOk
        /\ lastOp.createCalled => ~lastOp.hadDirectory
        /\ (~lastOp.hadDirectory /\ lastOp.serializeOk /\ lastOp.createOk /\ lastOp.writeOk)
             => /\ lastOp.result
                /\ dirExists
                /\ file = JsonFile(SettingsToJson(CurrentSettings))
        /\ lastOp.result => (dirExists /\ file = JsonFile(SettingsToJson(CurrentSettings)))

\* a save of changed settings that had to create the directory
C13_Witness ==
    /\ lastOp.name = "SaveSettings"
    /\ ~lastOp.hadDirectory
    /\ lastOp.createCalled
    /\ lastOp.result
    /\ dirExists
    /\ CurrentSettings # DefaultSettings
    /\ file = JsonFile(SettingsToJson(CurrentSettings))

\* C14: a failed SaveSettings hands its caller an outcome that tells the
\* cause: the value returned after a failed serialization, after a failed
\* creation of the directory and after a failed write are three different
\* values.
C14_FailuresDistinct ==
    LET Returned == [cause \in {"serialize", "directory", "write"} |->
                       CASE cause = "serialize" -> SaveResult(FALSE, FALSE, TRUE, TRUE)
                         [] cause = "directory" -> SaveResult(FALSE, TRUE, FALSE, TRUE)
                         [] cause = "write" -> SaveResult(TRUE, TRUE, TRUE, FALSE)]
        Cause == IF ~lastOp.serializeOk THEN "serialize"
                 ELSE IF ~lastOp.hadDirectory /\ ~lastOp.createOk THEN "directory"
                 ELSE "write"
    IN  (lastOp.name = "SaveSettings" /\ ~lastOp.result) =>
            \A other \in DOMAIN Returned \ {Cause} : Returned[other] # lastOp.result


\* C15: every per-field setter and every bulk category setter changes its
\* own category only, then runs the apply function of that category once and
\* no other apply function, so that the sinks of that category are handed the
\* values now stored.
C15_SetterAppliesOwnCategory ==
    [][("cat" \in DOMAIN lastOp') =>
          /\ applyTrace' = <<lastOp'.cat>>
          /\ sinkCalls' = ApplyCategory(lastOp'.cat, CurrentSettings', available)
          /\ \A i \in 1..Len(sinkCalls') : sinkCalls'[i].cat = lastOp'.cat
          /\ \A c \in DOMAIN CurrentSettings \ {lastOp'.cat} :
                 CurrentSettings'[c] = CurrentSettings[c]]_vars

\* a bulk setter of the audio category called after a per-field setter of the
\* graphics category: only the audio sinks are called
C15_Witness ==
    /\ lastOp.name = "SetCategorySettings"
    /\ lastOp.cat = "Audio"
    /\ CurrentSettings.Audio = ChangedAudio
    /\ CurrentSettings.Graphics \notin {DefaultGraphics, ChangedGraphics}
    /\ Len(sinkCalls) > 0


\* the sink calls an apply function makes when every target resolves, cut
\* down to the targets that resolve in the engine at hand, and the calls it
\* made in fact
Resolvable(call) ==
    CASE call.sink = "GameUserSettings" -> available.GameUserSettings
      [] call.sink = "ConsoleVariable" -> call.name \in available.Found
      [] OTHER -> TRUE

AllCallsOf(c) == ApplyCategory(c, CurrentSettings, FullEnvironment)

SomeTargetUnresolved(c) == \E i \in 1..Len(AllCallsOf(c)) : ~Resolvable(AllCallsOf(c)[i])

ResolvableTargetsServed(c) ==
    SelectSeq(sinkCalls, LAMBDA call : call.cat = c) = SelectSeq(AllCallsOf(c), Resolvable)

C17_FieldsWithinBounds ==
    LET Within(v, lo, hi) == lo <= v /\ v <= hi
        g == CurrentSettings.Graphics
        a == CurrentSettings.Audio
    IN  /\ \A q \in {g.AntiAliasingQuality, g.ShadowQuality, g.ViewDistanceQuality,
                     g.PostProcessQuality, g.TextureQuality, g.EffectsQuality,
                     g.FoliageQuality, g.ShadingQuality} : Within(q, 0, 4)
        /\ \A v \in {a.MasterVolume, a.SFXVolume, a.MusicVolume, a.VoiceDialogVolume,
                     a.AmbientVolume, a.UISoundVolume, a.VoiceChatVolume} :
               Within(v, 0, FloatScale)
        /\ Within(CurrentSettings.Display.Brightness, 0, 2 * FloatScale)
        /\ Within(CurrentSettings.Display.HDRMaxNits, 1000 * FloatScale, 10000 * FloatScale)
        /\ Within(CurrentSettings.Gameplay.FOV, 60 * FloatScale, 120 * FloatScale)
        /\ Within(CurrentSettings.Gameplay.MouseSensitivity, 100, 5 * FloatScale)
        /\ Within(CurrentSettings.Accessibility.UIScale, 500, 2 * FloatScale)


\* C18: a successful LoadSettings leaves every value of the document in
\* CurrentSettings as it is, with no clamp; a value outside the range of its
\* setter then stays through every operation other than the setter of that
\* field, the bulk setter of its category and a load: through the setters of
\* other fields, ApplyAllSettings, SaveSettings and UpdatePerformanceMetrics.
C18_LoadedValueStays ==
    [][LET Edited == { [cat |-> "Graphics", field |-> "ShadowQuality",
                        setter |-> "SetShadowQuality", lo |-> 0, hi |-> 4],
                       [cat |-> "Audio", field |-> "MasterVolume",
                        setter |-> "SetMasterVolume", lo |-> 0, hi |-> FloatScale],
                       [cat |-> "Gameplay", field |-> "FOV",
                        setter |-> "SetFOV", lo |-> 60 * FloatScale, hi |-> 120 * FloatScale] }
           OutOfRange(f) == \/ CurrentSettings[f.cat][f.field] < f.lo
                            \/ CurrentSettings[f.cat][f.field] > f.hi
           Covers(f) == \/ lastOp'.name = f.setter
                        \/ lastOp'.name = "SetCategorySettings" /\ lastOp'.cat = f.cat
                        \/ lastOp'.name = "LoadSettings"
       IN  /\ (lastOp'.name = "LoadSettings" /\ lastOp'.result) =>
                 \A c \in DOMAIN file.doc : \A k \in DOMAIN file.doc[c] :
                     SettingsToJson(CurrentSettings')[c][k] = file.doc[c][k]
           /\ \A f \in Edited :
                 (OutOfRange(f) /\ ~Covers(f)) =>
                     CurrentSettings'[f.cat][f.field] = CurrentSettings[f.cat][f.field]]_vars

\* the field of view 500 of the file is still in the settings after a setter
\* of another gameplay field, a save and a frame
C18_Witness ==
    /\ lastOp.name = "UpdatePerformanceMetrics"
    /\ savedFrom.valid
    /\ CurrentSettings.Gameplay.FOV = 500 * FloatScale
    /\ CurrentSettings.Gameplay.MouseSensitivity = 5 * FloatScale
    /\ file.doc.Gameplay.FOV = JsonNumber(FloatAsNumber(500 * FloatScale))

\* the field of view 500 is in the settings again after SetFOV and a load of
\* the hand-edited file
C18_WitnessReload ==
    /\ lastOp.name = "LoadSettings"
    /\ lastOp.result
    /\ lastOp.changed
    /\ CurrentSettings.Gameplay.FOV = 500 * FloatScale


\* C19: what a successful LoadSettings leaves in CurrentSettings is
\* determined by the document alone: it is what a store holding the defaults
\* ends with after loading the same document, whatever the store held before.
C19_LoadDeterminedByDocument ==
    (lastOp.name = "LoadSettings" /\ lastOp.result)
        => CurrentSettings = JsonToSettings(DefaultSettings, file.doc)

\* C20: the FPS history is a contiguous suffix, in arrival order, of the
\* samples accepted since the last reset: a call of UpdatePerformanceMetrics
\* with a positive duration leaves a suffix of the old history followed by the
\* new sample, the new sample included; a reset leaves the empty history; no
\* other step changes the history.
C20_HistoryIsSuffix ==
    [][IF lastOp'.name = "UpdatePerformanceMetrics" /\ lastOp'.DeltaTime > 0
       THEN LET arrived == Append(FPSHistory, CurrentFPS(lastOp'.DeltaTime))
            IN  \E n \in 1..Len(arrived) :
                    FPSHistory' = SubSeq(arrived, n, Len(arrived))
       ELSE IF lastOp'.name = "ResetPerformanceStats"
            THEN FPSHistory' = <<>>
            ELSE FPSHistory' = FPSHistory]_vars


\* ------------------------------------------------------------------------
\* Telemetry properties, continued
\* ------------------------------------------------------------------------

SampleDuration(FPS) == FloatDiv(FloatScale * TimeUnitsPerSecond, FPS)

\* the time covered by the samples of the history other than the newest
RetainedDuration ==
    IF Len(FPSHistory) <= 1 THEN 0
    ELSE LET d == [i \in 1..(Len(FPSHistory) - 1) |-> SampleDuration(FPSHistory[i])]
         IN  SumOver(d, 1, Len(FPSHistory) - 1)

\* C22: after any call of UpdatePerformanceMetrics, for any sequence of
\* positive frame durations, slow frames included, the history covers the
\* most recent 2 seconds only: the durations of the retained samples other
\* than the newest sum to at most 2.0 s.
C22_WindowTwoSeconds == RetainedDuration <= HistoryWindow

\* C23: whenever UpdatePerformanceMetrics trims the history (accumulator
\* above 2.0 s and more than 60 samples held), the count it hands to
\* RemoveAt, Num - 120, is at least 0 and at most Num: no reachable sequence
\* of positive frame durations makes it trim a history of 61 to 119 samples.
C23_TrimCountInRange ==
    [][(/\ lastOp'.name = "UpdatePerformanceMetrics"
        /\ lastOp'.DeltaTime > 0
        /\ TrimDue(FPSHistoryTimeAccumulator + lastOp'.DeltaTime, Len(FPSHistory) + 1))
         => /\ TrimCount(Len(FPSHistory) + 1) >= 0
            /\ TrimCount(Len(FPSHistory) + 1) <= Len(FPSHistory) + 1]_vars

\* C26: a newly constructed manager, queried before any
\* UpdatePerformanceMetrics, reports the same "no data yet" values as a
\* manager right after ResetPerformanceStats(): FPS_Min = 999, FPS_Max = 0,
\* FPS_Average = 0, an empty history and a zero accumulator.
C26_FreshAsAfterReset ==
    (/\ lastOp.name = "GetInstance"
     /\ lastOp.had = nullptr
     /\ lastOp.returned # nullptr)
        => /\ FPSHistory = <<>>
           /\ FPSHistoryTimeAccumulator = 0
           /\ PerformanceMetrics.FPS_Min = 999 * FloatScale
           /\ PerformanceMetrics.FPS_Max = 0
           /\ PerformanceMetrics.FPS_Average = 0
           /\ PerformanceMetrics = ResetMetrics(PerformanceMetrics)

\* ------------------------------------------------------------------------
\* Settings properties, continued
\* ------------------------------------------------------------------------

\* the value a console variable was last handed
CVar(Name) == SinkState[<<"ConsoleVariable", Name>>]

\* C24: after any sequence of per-field and bulk setters, every sink holds
\* the value a full ApplyAllSettings() from the same settings would leave; in
\* particular r.BloomQuality stays 0 while PhotosensitivityMode is on and
\* r.VSync stays 0 while BenchmarkMode is on, whichever setter of another
\* category is called next.
C24_SinksAsAfterApplyAll ==
    /\ SinkState = SinksAfter(SinkState, ApplyInOrder(ApplyAllOrder, CurrentSettings, available))
    /\ CurrentSettings.Accessibility.bPhotosensitivityMode => CVar("r.BloomQuality") = <<0>>
    /\ CurrentSettings.Debug.bBenchmarkMode => CVar("r.VSync") = <<0>>

\* the console variable that belongs to an upscaling mode, if it has one
UpscalerVariables ==
    {"r.TemporalSuperResolution", "r.NGX.DLSS.Enable", "r.FidelityFX.FSR.Enabled"}

UpscalerVariableOf(Mode) ==
    CASE Mode = EnumValue(EUPMUpscalingMode, "TSR") -> {"r.TemporalSuperResolution"}
      [] Mode = EnumValue(EUPMUpscalingMode, "DLSS") -> {"r.NGX.DLSS.Enable"}
      [] Mode = EnumValue(EUPMUpscalingMode, "FSR") -> {"r.FidelityFX.FSR.Enabled"}
      [] OTHER -> {}

\* C25: after any sequence of SetUpscalingMode calls, among
\* r.TemporalSuperResolution, r.NGX.DLSS.Enable and r.FidelityFX.FSR.Enabled
\* only the variable of the current UpscalingMode holds 1 (none for None and
\* XeSS): the sinks depend on the current settings, not on the modes chosen
\* before.
C25_OnlyCurrentUpscaler ==
    \A Name \in UpscalerVariables :
        CVar(Name) = <<1>> => Name \in UpscalerVariableOf(CurrentSettings.Rendering.UpscalingMode)

\* C27: after the settings panel's ResetToDefaults(), from any prior
\* settings, GetAllSettings() is a default-constructed FUPMCompleteSettings
\* in every one of the nine categories, Accessibility, Network and Debug
\* included.
C27_ResetRestoresDefaults ==
    lastOp.name = "ResetToDefaults" => CurrentSettings = DefaultSettings

\* C28: SetSafeZoneScale stores, for any argument, a value within the
\* documented range of the field, 0.9 to 1.0: an argument below 0.9 is raised
\* to 0.9, an argument above 1.0 lowered to 1.0.
C28_SafeZoneScaleInRange ==
    lastOp.name = "SetSafeZoneScale"
        => /\ CurrentSettings.Display.SafeZoneScale >= 900
           /\ CurrentSettings.Display.SafeZoneScale <= FloatScale
           /\ lastOp.arg < 900 => CurrentSettings.Display.SafeZoneScale = 900
           /\ lastOp.arg > FloatScale => CurrentSettings.Display.SafeZoneScale = FloatScale

\* C29: a per-field setter changes its own field of CurrentSettings only:
\* every other category, every other field of its category (at most one
\* field of the category differs after the call) and the state of the
\* monitor (FPS history, accumulator, performance snapshot) are as before;
\* and UpdatePerformanceMetrics, ResetPerformanceStats, ApplyAllSettings and
\* SaveSettings change no field of the settings.
C29_SetterFrame ==
    [][/\ ("arg" \in DOMAIN lastOp') =>
            LET Old == CurrentSettings[lastOp'.cat]
                New == CurrentSettings'[lastOp'.cat]
            IN  /\ \A c \in DOMAIN CurrentSettings \ {lastOp'.cat} :
                       CurrentSettings'[c] = CurrentSettings[c]
                /\ DOMAIN New = DOMAIN Old
                /\ \A f1, f2 \in DOMAIN Old :
                       (New[f1] # Old[f1] /\ New[f2] # Old[f2]) => f1 = f2
                /\ FPSHistory' = FPSHistory
                /\ FPSHistoryTimeAccumulator' = FPSHistoryTimeAccumulator
                /\ PerformanceMetrics' = PerformanceMetrics
       /\ (lastOp'.name \in {"UpdatePerformanceMetrics", "ResetPerformanceStats",
                              "ApplyAllSettings", "SaveSettings"})
             => CurrentSettings' = CurrentSettings]_vars

\* SetCrossplayEnabled(false) has changed the settings of a manager, and the
\* settings have since been saved, ticked over and the monitor reset
C29_Witness ==
    /\ lastOp.name = "ResetPerformanceStats"
    /\ CurrentSettings # DefaultSettings
    /\ CurrentSettings.Network.PreferredRegion = "Auto"
    /\ ~CurrentSettings.Network.bEnableCrossplay
    /\ savedFrom.valid
    /\ PerformanceMetrics.FPS_Current > 0

\* ------------------------------------------------------------------------
\* Overlay properties
\* ------------------------------------------------------------------------

\* C30: NativeTick of an overlay that is visible and holds a manager hands
\* its delta time to UpdatePerformanceMetrics exactly once, and fires
\* OnPerformanceMetricsUpdated, with the snapshot just computed, on exactly
\* those ticks on which the tick time accumulated since the last firing
\* reaches UpdateInterval, after which the timer starts from 0 again; a tick
\* of a hidden overlay (or of one without a manager) does not update the
\* metrics, does not advance the timer and does not fire the event.
C30_OverlayTick ==
    [][(lastOp'.name = "NativeTick") =>
         IF overlay.bIsVisible /\ overlay.SettingsManager # nullptr
         THEN /\ lastOp'.forwarded = <<lastOp'.InDeltaTime>>
              /\ lastOp'.InDeltaTime > 0 =>
                    /\ Len(FPSHistory') = Len(FPSHistory) + 1
                    /\ PerformanceMetrics'.FPS_Current = CurrentFPS(lastOp'.InDeltaTime)
              /\ lastOp'.InDeltaTime <= 0 =>
                    /\ FPSHistory' = FPSHistory
                    /\ PerformanceMetrics' = PerformanceMetrics
              /\ IF overlay.UpdateTimer + lastOp'.InDeltaTime >= overlay.UpdateInterval
                 THEN /\ lastOp'.fired = <<PerformanceMetrics'>>
                      /\ overlay'.UpdateTimer = 0
                 ELSE /\ lastOp'.fired = <<>>
                      /\ overlay'.UpdateTimer = overlay.UpdateTimer + lastOp'.InDeltaTime
              /\ overlay'.bIsVisible /\ overlay'.UpdateInterval = overlay.UpdateInterval
         ELSE /\ lastOp'.forwarded = <<>>
              /\ lastOp'.fired = <<>>
              /\ overlay' = overlay
              /\ FPSHistory' = FPSHistory
              /\ FPSHistoryTimeAccumulator' = FPSHistoryTimeAccumulator
              /\ PerformanceMetrics' = PerformanceMetrics]_vars

\* the event fires on the fourth frame, which takes the timer past the
\* interval (0.1167 s after frames of 1/30 s and one of 1/60 s), and the
\* timer is back at 0
C30_Witness ==
    /\ lastOp.name = "NativeTick"
    /\ lastOp.fired = <<PerformanceMetrics>>
    /\ lastOp.elapsed > overlay.UpdateInterval
    /\ overlay.UpdateTimer = 0
    /\ overlay.Visibility = "Visible"
    /\ Len(FPSHistory) = 4

=========================================================================
